---- MODULE Spec2Model ----
(***************************************************************************)
(* Model of the expense-tracking chat bot in src/main.py: the per-user     *)
(* conversation state machine (python-telegram-bot ConversationHandler),   *)
(* its handlers, and the ledger (sheet) they read and write.               *)
(*                                                                         *)
(* Modelling conventions                                                   *)
(*  - A callback-data string is the sequence of its "_"-separated tokens   *)
(*    (the code itself splits on "_"); Join gives back the string.         *)
(*  - A Python dict is a function whose DOMAIN is the set of keys present. *)
(*  - A sheet row is a 7-tuple of strings, "" being an empty cell.         *)
(*  - Calls the code wraps in try/except may fail (the \E over outcomes in *)
(*    each action).  Replies sent with parse_mode='Markdown' may be        *)
(*    rejected by the transport; plain-text replies are taken to succeed.  *)
(*  - Spec handles the events of a user one after the other, each handler  *)
(*    as one step.  SpecConc is the bot under concurrent_updates(True)     *)
(*    (main.py:1500): a handler begins (Begin) and returns (Return) in     *)
(*    separate steps, and other handlers of the user may begin in between. *)
(***************************************************************************)
EXTENDS Integers, Sequences, FiniteSets, TLC

VARIABLES
    active,      \* the users that send events in this behaviour (fixed by Init)
    conv,        \* ConversationHandler._conversations: user -> state ("END" = no entry)
    user_data,   \* context.user_data of each user
    ledger,      \* the sheet: row 1 is the header
    last,        \* the latest event that a handler of the current state or a fallback
                 \* handled, or that changed the state, and what its handler did
    flows,       \* how many events of each user count against MaxFlows so far
    inflight,    \* handler invocations that have started and not yet returned
    overlap      \* whether the behaviour lets handlers of one user overlap (fixed by Init)

vars == <<active, conv, user_data, ledger, last, flows, inflight, overlap>>

----------------------------------------------------------------------------
(* Bounds of the model *)

\* the ledger never grows beyond the header plus MaxRows data rows
MaxRows == 2
\* of each user, at most MaxFlows events start or disturb a flow: those
\* handled by an entry point or by a handler outside the conversation that
\* change the state, and the New-Expense presses that restart the entry from
\* an active state; in SpecConc, at most MaxFlows events of each user are
\* handled
MaxFlows == 2
\* at most MaxInflight handler invocations of one user run at the same time
MaxInflight == 2
\* in SpecList the ledger holds up to MaxListRows expenses
MaxListRows == 12

----------------------------------------------------------------------------
(* Conversation states (main.py:24-26) and ConversationHandler.END *)

END == "END"
DATE == "DATE"
PLACE == "PLACE"
AMOUNT == "AMOUNT"
CATEGORY == "CATEGORY"
RECEIPT_NUMBER == "RECEIPT_NUMBER"
TAG == "TAG"
RECEIPT_UPLOAD == "RECEIPT_UPLOAD"
SEARCH_DATE_RANGE == "SEARCH_DATE_RANGE"
EDIT_FIELD == "EDIT_FIELD"
EDIT_VALUE == "EDIT_VALUE"
DELETE_CONFIRM == "DELETE_CONFIRM"
CALENDAR_MONTH_SELECTION == "CALENDAR_MONTH_SELECTION"
CALENDAR_DAY_SELECTION == "CALENDAR_DAY_SELECTION"

ActiveStates ==
    {DATE, PLACE, AMOUNT, CATEGORY, RECEIPT_NUMBER, TAG, RECEIPT_UPLOAD,
     SEARCH_DATE_RANGE, EDIT_FIELD, EDIT_VALUE, DELETE_CONFIRM,
     CALENDAR_MONTH_SELECTION, CALENDAR_DAY_SELECTION}

\* what a handler invocation can yield besides a state: no return value, or an
\* exception that escapes the handler
RetNone == "None"
RetRaise == "RAISE"

CATEGORIES == {"Food", "Transportation", "Accommodation", "House furniture",
               "Electronics", "Other"}
TAGS == {"Business", "Personal", "House", "Entertainment", "Gift"}

----------------------------------------------------------------------------
(* Python dicts and strings *)

EmptyDict == [k \in {} |-> ""]
Has(d, k) == k \in DOMAIN d
Put(d, k, v) == [q \in (DOMAIN d) \cup {k} |-> IF q = k THEN v ELSE d[q]]
Pop(d, k) == [q \in (DOMAIN d) \ {k} |-> d[q]]
\* dict.get(k): None is modelled by the caller's default
Get(d, k, default) == IF Has(d, k) THEN d[k] ELSE default

RECURSIVE Join(_)
Join(d) ==
    IF Len(d) = 0 THEN ""
    ELSE IF Len(d) = 1 THEN d[1]
    ELSE d[1] \o "_" \o Join(Tail(d))

\* re.match(r"^p_", data) for a prefix p that holds no "_"
StartsWith(d, p) == Len(d) >= 2 /\ d[1] = p

\* the integers whose decimal form occurs as a token of the model
Numbers == (0..12) \cup {1900, 2000, 2100} \cup (2020..2030)
Numerals == {ToString(n) : n \in Numbers}
\* int(token) succeeds
IsInt(t) == t \in Numerals
ToInt(t) == CHOOSE n \in Numbers : ToString(n) = t

Pad2(n) == IF n < 10 THEN "0" \o ToString(n) ELSE ToString(n)

----------------------------------------------------------------------------
(* Dates and amounts: datetime.strptime / strftime, float() and formatting *)

\* datetime.now() formatted with "%Y.%m.%d"
Today == "2025.01.01"

IsLeap(y) == (y % 4 = 0 /\ y % 100 # 0) \/ y % 400 = 0
DaysInMonth(y, m) ==
    IF m = 2 THEN (IF IsLeap(y) THEN 29 ELSE 28)
    ELSE IF m \in {4, 6, 9, 11} THEN 30 ELSE 31

\* the fields "%Y.%m.%d" reads off a text; <<>> when the text has another shape
DateLex(t) ==
    CASE t = "2025.01.01" -> <<2025, 1, 1>>
      [] t = "2025.01.02" -> <<2025, 1, 2>>
      [] t = "2025.01.03" -> <<2025, 1, 3>>
      [] t = "2025.01.04" -> <<2025, 1, 4>>
      [] t = "2024.12.31" -> <<2024, 12, 31>>
      [] t = "2025.1.1"   -> <<2025, 1, 1>>
      [] t = "2025.02.30" -> <<2025, 2, 30>>
      [] t = "2024.02.29" -> <<2024, 2, 29>>
      [] t = "2025.13.01" -> <<2025, 13, 1>>
      [] t = "0999.01.01" -> <<999, 1, 1>>
      [] OTHER -> <<>>

\* datetime.strptime(t, "%Y.%m.%d"): <<y, m, d>>, or <<>> for ValueError
strptime(t) ==
    LET p == DateLex(t) IN
    IF p = <<>> THEN <<>>
    ELSE IF p[2] \in 1..12 /\ p[3] \in 1..DaysInMonth(p[1], p[2]) THEN p
    ELSE <<>>

\* date.strftime("%Y.%m.%d")
strftime(p) == ToString(p[1]) \o "." \o Pad2(p[2]) \o "." \o Pad2(p[3])

\* start <= d on dates <<y, m, d>>
DateLeq(a, b) ==
    \/ a[1] < b[1]
    \/ a[1] = b[1] /\ a[2] < b[2]
    \/ a[1] = b[1] /\ a[2] = b[2] /\ a[3] <= b[3]

\* str.lower() on the texts of the model
lower(t) ==
    CASE t = "Today" -> "today" [] t = "TODAY" -> "today"
      [] t = "Skip" -> "skip" [] t = "SKIP" -> "skip"
      [] OTHER -> t

\* float(t) in hundredths: <<c>>, or <<>> for ValueError
FloatLex(t) ==
    CASE t = "12.5" -> <<1250>>
      [] t = "12.50" -> <<1250>>
      [] t = "7" -> <<700>>
      [] t = "7.0" -> <<700>>
      [] t = "7.00" -> <<700>>
      [] t = "0" -> <<0>>
      [] t = "-3" -> <<-300>>
      [] OTHER -> <<>>

Abs(c) == IF c < 0 THEN 0 - c ELSE c
Sign(c) == IF c < 0 THEN "-" ELSE ""

\* str(x) of a float with at most two decimals: 12.5 -> "12.5", 7.0 -> "7.0"
FloatStr(c) ==
    LET a == Abs(c) IN
    Sign(c) \o ToString(a \div 100) \o "." \o
        (IF a % 10 = 0 THEN ToString((a % 100) \div 10) ELSE Pad2(a % 100))

\* f"{x:.2f}"
Fmt2(c) == LET a == Abs(c) IN Sign(c) \o ToString(a \div 100) \o "." \o Pad2(a % 100)

----------------------------------------------------------------------------
(* The sheet (gspread worksheet) *)

Width == 7
HeaderRow == <<"Date", "Place", "Amount", "Category", "Receipt #", "Tag", "Receipt">>
BlankRow == [i \in 1..Width |-> ""]

RECURSIVE Trim(_)
\* a row as the API returns it: trailing empty cells are dropped
Trim(r) == IF Len(r) > 0 /\ r[Len(r)] = "" THEN Trim(SubSeq(r, 1, Len(r) - 1)) ELSE r

\* sheet.row_values(n)
row_values(led, n) == IF n \in 1..Len(led) THEN Trim(led[n]) ELSE <<>>

RECURSIVE PadTo(_, _)
PadTo(led, n) == IF Len(led) >= n THEN led ELSE PadTo(Append(led, BlankRow), n)

\* sheet.update_cell(n, col, v): one cell changes; a row past the last one is
\* a blank row of the grid
update_cell(led, n, col, v) ==
    LET g == PadTo(led, n) IN
    [g EXCEPT ![n] = [@ EXCEPT ![col] = v]]

\* a delete that removes the last row whatever the index
delete_row_Last(led, n) ==
    IF n \in 1..Len(led) THEN SubSeq(led, 1, Len(led) - 1) ELSE led

\* sheet.delete_row(n): later rows shift up; a row past the last one is blank
delete_row(led, n) ==
    IF n \in 1..Len(led)
    THEN SubSeq(led, 1, n - 1) \o SubSeq(led, n + 1, Len(led))
    ELSE led

\* an append that writes the row twice
append_row_Twice(led, row) == Append(Append(led, row), row)

\* sheet.append_row(row)
append_row(led, row) == Append(led, row)

----------------------------------------------------------------------------
(* Events delivered by the transport *)

Users == {"u1", "u2"}

Command(c) == [kind |-> "command", text |-> c, data |-> <<>>]
Text(t) == [kind |-> "text", text |-> t, data |-> <<>>]
Photo == [kind |-> "photo", text |-> "", data |-> <<>>]
Press(d) == [kind |-> "press", text |-> "", data |-> d]

Commands == {"start", "menu", "cancel"}

\* callback data of the buttons the bot builds (one or two samples of each
\* family of generated tags)
Tags ==
    LET MenuTags == {<<"cmd", "start">>, <<"cmd", "view">>, <<"cmd", "view", "date">>,
                     <<"cmd", "edit">>, <<"cmd", "delete">>, <<"cmd", "summary">>}
        CalendarTags == {<<"month", "1", "2025">>, <<"date", "today">>, <<"date", "manual">>,
                         <<"back", "to", "menu">>, <<"back", "to", "months">>,
                         <<"ignore">>, <<"day", "2025.01.01">>}
        ViewTags == {<<"view", "today">>, <<"view", "custom">>}
        RowTags == {<<k, ToString(n)>> : k \in {"edit", "delete"}, n \in 2..(MaxRows + 1)}
        FieldTags == {<<"edit", "field", ToString(i)>> : i \in 0..6}
                     \cup {<<"back", "to", "edit", "list">>, <<"back", "to", "fields">>}
        PickerTags == {<<"Food">>, <<"Personal">>,
                       <<"setcat", "Other">>, <<"settag", "Gift">>}
        ConfirmTags == {<<"confirm", "delete">>, <<"cancel", "delete">>}
    IN MenuTags \cup CalendarTags \cup ViewTags \cup RowTags \cup FieldTags
       \cup PickerTags \cup ConfirmTags

\* the texts the model sends in each state
TextsIn(state) ==
    CASE state = DATE -> {"2025.01.01", "2025.1.1", "2025.02.30", "abc", "Today"}
      [] state = PLACE -> {"Cafe"}
      [] state = AMOUNT -> {"12.5", "-3", "abc"}
      [] state = RECEIPT_NUMBER -> {"R1"}
      [] state = RECEIPT_UPLOAD -> {"skip", "Skip", "abc"}
      [] state = SEARCH_DATE_RANGE -> {"2025.01.01", "2025.01.03", "2025.02.30"}
      [] state = EDIT_VALUE -> {"7", "abc"}
      [] OTHER -> {"Cafe"}

----------------------------------------------------------------------------
(* Dispatch: Application.process_update over the handlers of group 0 in    *)
(* registration order; ConversationHandler.check_update                    *)

IsCmd(ev, c) == ev.kind = "command" /\ ev.text = c
\* filters.TEXT & ~filters.COMMAND
IsText(ev) == ev.kind = "text"
IsPress(ev) == ev.kind = "press"
\* pattern=r"^p_" for each p of ps
PressOf(ev, ps) == IsPress(ev) /\ \E p \in ps : StartsWith(ev.data, p)
\* pattern=r"^edit_\d+$" / r"^delete_\d+$"
PressRow(ev, k) == IsPress(ev) /\ Len(ev.data) = 2 /\ ev.data[1] = k /\ IsInt(ev.data[2])
PressIs(ev, d) == IsPress(ev) /\ ev.data = d

NoHandler == [h |-> "none", via |-> "none"]

\* entry_points, tried when the user has no conversation state
EntryPoint(ev) ==
    IF IsCmd(ev, "start") THEN [h |-> "start", via |-> "entry"]
    ELSE IF PressOf(ev, {"cmd"}) THEN [h |-> "handle_menu_command", via |-> "entry"]
    ELSE IF PressOf(ev, {"view"}) THEN [h |-> "handle_view_date_callback", via |-> "entry"]
    ELSE IF PressRow(ev, "edit") THEN [h |-> "handle_edit_selection", via |-> "entry"]
    ELSE IF PressRow(ev, "delete") THEN [h |-> "handle_delete_selection", via |-> "entry"]
    ELSE NoHandler

\* states[state]
StateHandler(state, ev) ==
    CASE state = CALENDAR_MONTH_SELECTION /\ PressOf(ev, {"month", "date", "back"}) ->
            [h |-> "handle_calendar_month", via |-> "state"]
      [] state = CALENDAR_DAY_SELECTION /\ PressOf(ev, {"day", "back"}) ->
            [h |-> "handle_calendar_day", via |-> "state"]
      [] state = DATE /\ IsText(ev) -> [h |-> "date_input", via |-> "state"]
      [] state = PLACE /\ IsText(ev) -> [h |-> "place_input", via |-> "state"]
      [] state = AMOUNT /\ IsText(ev) -> [h |-> "amount_input", via |-> "state"]
      [] state = CATEGORY /\ IsPress(ev) -> [h |-> "category_callback", via |-> "state"]
      [] state = RECEIPT_NUMBER /\ IsText(ev) ->
            [h |-> "receipt_number_input", via |-> "state"]
      [] state = TAG /\ IsPress(ev) -> [h |-> "tag_callback", via |-> "state"]
      [] state = RECEIPT_UPLOAD /\ (ev.kind = "photo" \/ IsText(ev)) ->
            [h |-> "receipt_upload", via |-> "state"]
      [] state = SEARCH_DATE_RANGE /\ IsText(ev) ->
            [h |-> "search_date_range", via |-> "state"]
      [] state = EDIT_FIELD /\ (PressOf(ev, {"back"})
                                \/ (IsPress(ev) /\ Len(ev.data) >= 3
                                    /\ ev.data[1] = "edit" /\ ev.data[2] = "field")) ->
            [h |-> "handle_edit_field_selection", via |-> "state"]
      [] state = EDIT_VALUE /\ (PressOf(ev, {"setcat", "settag", "back", "day"})
                                \/ IsText(ev)) ->
            [h |-> "handle_edit_value", via |-> "state"]
      [] state = DELETE_CONFIRM /\ PressOf(ev, {"confirm", "cancel"}) ->
            [h |-> "handle_delete_confirm", via |-> "state"]
      [] OTHER -> NoHandler

\* fallbacks, tried when no handler of the state matches
Fallback(ev) ==
    IF IsCmd(ev, "cancel") THEN [h |-> "cancel", via |-> "fallback"]
    ELSE IF PressIs(ev, <<"cmd", "start">>) THEN [h |-> "start", via |-> "fallback"]
    ELSE IF PressIs(ev, <<"back", "to", "menu">>) THEN [h |-> "cancel", via |-> "fallback"]
    ELSE NoHandler

\* ConversationHandler.check_update
ConvCheck(state, ev) ==
    IF state = END THEN EntryPoint(ev)
    ELSE IF StateHandler(state, ev) # NoHandler THEN StateHandler(state, ev)
    ELSE Fallback(ev)

\* the handlers added after the conversation handler: their return value is
\* not a conversation state
Global(ev) ==
    IF PressOf(ev, {"cmd"}) THEN [h |-> "handle_menu_command", via |-> "global"]
    ELSE IF PressOf(ev, {"view"}) THEN [h |-> "handle_view_date_callback", via |-> "global"]
    ELSE IF PressIs(ev, <<"back", "to", "menu">>) THEN [h |-> "cancel", via |-> "global"]
    ELSE NoHandler

\* the first handler of the group whose check_update accepts the event
Route(state, ev) ==
    IF IsCmd(ev, "menu") THEN [h |-> "command_menu", via |-> "global"]
    ELSE IF ConvCheck(state, ev) # NoHandler THEN ConvCheck(state, ev)
    ELSE Global(ev)

\* tags of buttons that no handler of the conversation takes in an active
\* state: they reach the handlers registered after it, or none
OutsideTags == {<<"cmd", "view">>, <<"view", "custom">>, <<"ignore">>}

\* the buttons the model presses in each state: in CATEGORY and TAG, where the
\* pressed tag is stored, a member of the set and a tag of an older message;
\* elsewhere every tag the conversation handler takes, and the OutsideTags
TagsIn(state) ==
    CASE state = CATEGORY -> {<<"Food">>, <<"back", "to", "menu">>}
      [] state = TAG -> {<<"Personal">>}
      [] state = END ->
            {d \in Tags : EntryPoint(Press(d)) # NoHandler}
            \cup {<<"back", "to", "menu">>, <<"ignore">>}
      [] OTHER ->
            {d \in Tags : StateHandler(state, Press(d)) # NoHandler
                          \/ Fallback(Press(d)) # NoHandler}
            \cup OutsideTags

EventsIn(state) ==
    {Command(c) : c \in Commands} \cup {Text(t) : t \in TextsIn(state)}
    \cup {Photo} \cup {Press(d) : d \in TagsIn(state)}

\* ConversationHandler._update_state after the handler returned ret
NewState(state, via, ret) ==
    IF via = "global" \/ ret \in {RetNone, RetRaise} THEN state ELSE ret

----------------------------------------------------------------------------
(* Handlers.  Each yields what the invocation leaves behind: the user's    *)
(* user_data, the ledger, the returned state (or RetNone / RetRaise), the  *)
(* reply shown, and the ledger mutations it performed.                     *)

Result(ud, led, ret, reply, ops) ==
    [ud |-> ud, led |-> led, ret |-> ret, reply |-> reply, ops |-> ops,
     clear |-> FALSE, drop |-> {}, shown |-> <<>>]

\* the last reply of the handler displays the records v
Showing(res, v) == [res EXCEPT !.shown = v]

\* the handler ends, after its last reply, with context.user_data.clear()
\* (main.py:516)
ThenClear(res) == [res EXCEPT !.clear = TRUE]

\* the handler ends, after its last reply, with context.user_data.pop(k, None)
\* for the keys k (main.py:1350-1351)
ThenDrop(res, keys) == [res EXCEPT !.drop = keys]

\* an exception escapes the handler: nothing it had not yet written is
\* written, and error_handler tells the user
Raise(ud, led, what) == Result(ud, led, RetRaise, what, <<>>)

\* context.user_data['expense'][k] = v
SetExpense(ud, k, v) == Put(ud, "expense", Put(ud["expense"], k, v))

\* start (main.py:89-113)
start(ud, led, ev) ==
    IF IsPress(ev)
    THEN Result(Put(ud, "expense", EmptyDict), led, CALENDAR_MONTH_SELECTION,
                "choose_date", <<>>)
    ELSE Result(ud, led, END, "main_menu", <<>>)

\* a weekday that counts from Sunday
weekday_SundayFirst(y, m, d) ==
    LET before_year == (y - 1) * 365 + (y - 1) \div 4 - (y - 1) \div 100 + (y - 1) \div 400
        RECURSIVE before_month(_)
        before_month(k) == IF k = 1 THEN 0 ELSE before_month(k - 1) + DaysInMonth(y, k - 1)
    IN (before_year + before_month(m) + d) % 7

\* datetime(y, m, d).weekday(): Monday is 0; the proleptic Gregorian
\* ordinal of the day, in which day 1 of year 1 is a Monday
weekday(y, m, d) ==
    LET before_year == (y - 1) * 365 + (y - 1) \div 4 - (y - 1) \div 100 + (y - 1) \div 400
        RECURSIVE before_month(_)
        before_month(k) == IF k = 1 THEN 0 ELSE before_month(k - 1) + DaysInMonth(y, k - 1)
    IN (before_year + before_month(m) + d + 6) % 7

\* a keyboard that starts a new row after every 7th cell and at no other
\* time
get_days_keyboard_NoFlush(month, year) ==
    LET num_days == DaysInMonth(year, month)
        first_day_weekday == weekday(year, month, 1)
        blanks == [i \in 1..first_day_weekday |-> [text |-> " ", data |-> <<"ignore">>]]
        date_str(day) == ToString(year) \o "." \o Pad2(month) \o "." \o Pad2(day)
        RECURSIVE loop(_, _, _)
        loop(day, keyboard, week) ==
            IF day > num_days THEN Append(keyboard, week)
            ELSE LET added == Append(week, [text |-> ToString(day),
                                            data |-> <<"day", date_str(day)>>])
                 IN IF (first_day_weekday + day) % 7 = 0
                    THEN loop(day + 1, Append(keyboard, added), <<>>)
                    ELSE loop(day + 1, keyboard, added)
    IN Append(loop(1, <<>>, blanks),
              << [text |-> "Back to Months", data |-> <<"back", "to", "months">>],
                 [text |-> "Main Menu", data |-> <<"back", "to", "menu">>] >>)

\* get_days_keyboard (main.py:195-225): the rows of buttons, each button
\* its label and its callback data
get_days_keyboard(month, year) ==
    LET num_days == DaysInMonth(year, month)
        first_day_weekday == weekday(year, month, 1)
        blanks == [i \in 1..first_day_weekday |-> [text |-> " ", data |-> <<"ignore">>]]
        date_str(day) == ToString(year) \o "." \o Pad2(month) \o "." \o Pad2(day)
        RECURSIVE loop(_, _, _)
        loop(day, keyboard, week) ==
            IF day > num_days THEN keyboard
            ELSE LET added == Append(week, [text |-> ToString(day),
                                            data |-> <<"day", date_str(day)>>])
                 IN IF (first_day_weekday + day) % 7 = 0 \/ day = num_days
                    THEN loop(day + 1, Append(keyboard, added), <<>>)
                    ELSE loop(day + 1, keyboard, added)
    IN Append(loop(1, <<>>, blanks),
              << [text |-> "Back to Months", data |-> <<"back", "to", "months">>],
                 [text |-> "Main Menu", data |-> <<"back", "to", "menu">>] >>)

\* handle_calendar_month (main.py:139-193)
handle_calendar_month(ud, led, ev) ==
    LET d == ev.data IN
    IF d = <<"date", "today">>
    THEN IF Has(ud, "expense")
         THEN Result(SetExpense(ud, "date", Today), led, PLACE, "date_set", <<>>)
         ELSE Raise(ud, led, "KeyError_expense")
    ELSE IF d = <<"date", "manual">>
    THEN Result(ud, led, DATE, "enter_date", <<>>)
    ELSE IF d = <<"back", "to", "menu">>
    THEN Result(ud, led, END, "main_menu", <<>>)
    ELSE IF Len(d) = 3 /\ d[1] = "month"
    THEN IF IsInt(d[2]) /\ IsInt(d[3]) /\ ToInt(d[2]) \in 1..12
         THEN Showing(Result(Put(Put(ud, "calendar_month", ToInt(d[2])),
                                 "calendar_year", ToInt(d[3])),
                             led, CALENDAR_DAY_SELECTION, "select_day", <<>>),
                      get_days_keyboard(ToInt(d[2]), ToInt(d[3])))
         ELSE Result(ud, led, DATE, "calendar_error", <<>>)
    ELSE Result(ud, led, RetNone, "", <<>>)

\* handle_calendar_day (main.py:227-256)
handle_calendar_day(ud, led, ev) ==
    LET d == ev.data IN
    IF d = <<"back", "to", "months">>
    THEN Result(ud, led, CALENDAR_MONTH_SELECTION, "select_month", <<>>)
    ELSE IF d = <<"back", "to", "menu">>
    THEN Result(ud, led, END, "main_menu", <<>>)
    ELSE IF StartsWith(d, "day")
    THEN IF Has(ud, "expense")
         THEN Result(SetExpense(ud, "date", Join(Tail(d))), led, PLACE, "date_set", <<>>)
         ELSE Raise(ud, led, "KeyError_expense")
    ELSE Result(ud, led, RetNone, "", <<>>)

\* a faulty date_input that takes any text as the date: C3 must not hold
\* of it
date_input_AnyText(ud, led, ev) ==
    IF Has(ud, "expense")
    THEN Result(SetExpense(ud, "date", ev.text), led, PLACE, "date_set", <<>>)
    ELSE Raise(ud, led, "KeyError_expense")

\* date_input (main.py:258-281)
date_input(ud, led, ev) ==
    LET text == ev.text
        parsed == strptime(text)
        date_str == IF lower(text) = "today" THEN Today ELSE strftime(parsed)
    IN
    IF lower(text) # "today" /\ parsed = <<>>
    THEN Result(ud, led, DATE, "use_date_format", <<>>)
    ELSE IF Has(ud, "expense")
    THEN Result(SetExpense(ud, "date", date_str), led, PLACE, "date_set", <<>>)
    ELSE Raise(ud, led, "KeyError_expense")

\* a place_input that starts the draft afresh with the place alone
place_input_FreshDraft(ud, led, ev) ==
    IF Has(ud, "expense")
    THEN Result(Put(ud, "expense", Put(EmptyDict, "place", ev.text)), led, AMOUNT,
                "place_set", <<>>)
    ELSE Raise(ud, led, "KeyError_expense")

\* place_input (main.py:283-291)
place_input(ud, led, ev) ==
    IF Has(ud, "expense")
    THEN Result(SetExpense(ud, "place", ev.text), led, AMOUNT, "place_set", <<>>)
    ELSE Raise(ud, led, "KeyError_expense")

\* amount_input (main.py:293-314); a KeyError is no ValueError and escapes
amount_input(ud, led, ev) ==
    LET amount == FloatLex(ev.text) IN
    IF amount = <<>>
    THEN Result(ud, led, AMOUNT, "enter_valid_number", <<>>)
    ELSE IF Has(ud, "expense")
    THEN Result(SetExpense(ud, "amount", FloatStr(amount[1])), led, CATEGORY,
                "amount_set", <<>>)
    ELSE Raise(ud, led, "KeyError_expense")

\* category_callback (main.py:316-328)
category_callback(ud, led, ev) ==
    IF Has(ud, "expense")
    THEN Result(SetExpense(ud, "category", Join(ev.data)), led, RECEIPT_NUMBER,
                "category_set", <<>>)
    ELSE Raise(ud, led, "KeyError_expense")

\* receipt_number_input (main.py:330-346)
receipt_number_input(ud, led, ev) ==
    IF Has(ud, "expense")
    THEN Result(SetExpense(ud, "receipt_number", ev.text), led, TAG,
                "receipt_number_set", <<>>)
    ELSE Raise(ud, led, "KeyError_expense")

\* tag_callback (main.py:348-360)
tag_callback(ud, led, ev) ==
    IF Has(ud, "expense")
    THEN Result(SetExpense(ud, "tag", Join(ev.data)), led, RECEIPT_UPLOAD,
                "tag_set", <<>>)
    ELSE Raise(ud, led, "KeyError_expense")

\* the keys receipt_upload reads to build the row (main.py:473-481)
RowKeys == <<"date", "place", "amount", "category", "receipt_number", "tag", "upload">>

DraftComplete(e) == \A i \in 1..Width : Has(e, RowKeys[i])

\* the outcomes of the external calls of one receipt_upload invocation:
\* svc: init_google_services; dl: get_file and the download; up: the Drive
\* upload; save: the call of the save step that fails, if any
UploadEnv(svc, dl, up, save) == [svc |-> svc, dl |-> dl, up |-> up, save |-> save]
UploadEnvs ==
    {UploadEnv(FALSE, TRUE, TRUE, "ok"), UploadEnv(TRUE, FALSE, TRUE, "ok")}
    \cup {UploadEnv(TRUE, TRUE, up, save) :
              up \in BOOLEAN, save \in {"ok", "append", "read", "reply"}}

\* the draft e after its row was appended as row n: row_index is stored when
\* the sheet could be read back (main.py:485-486)
Saved(e, n, env) == IF env.save = "read" THEN e ELSE Put(e, "row_index", n)

\* a faulty save step that writes a row whatever the draft holds, an absent
\* field as an empty cell: C1 must not hold of it
SaveExpense_AnyDraft(ud, led, e, env) ==
    LET row == [i \in 1..Width |-> Get(e, RowKeys[i], "")] IN
    IF env.save = "append"
    THEN ThenClear(Result(Put(ud, "expense", e), led, END, "error_saving", <<>>))
    ELSE ThenClear(Result(Put(ud, "expense", Saved(e, Len(led) + 1, env)),
                          append_row(led, row), END,
                          IF env.save = "ok" THEN "expense_saved" ELSE "error_saving",
                          <<[op |-> "append", row |-> Len(led) + 1, col |-> 0]>>))

\* a faulty save step that clears the context only when the save succeeded:
\* C5 must not hold of it
SaveExpense_KeepDraft(ud, led, e, env) ==
    LET row == [i \in 1..Width |-> e[RowKeys[i]]] IN
    IF ~DraftComplete(e) \/ env.save = "append"
    THEN Result(Put(ud, "expense", e), led, END, "error_saving", <<>>)
    ELSE ThenClear(Result(Put(ud, "expense", Saved(e, Len(led) + 1, env)),
                          append_row(led, row), END,
                          IF env.save = "ok" THEN "expense_saved" ELSE "error_saving",
                          <<[op |-> "append", row |-> Len(led) + 1, col |-> 0]>>))

\* receipt_upload, "Save to Google Sheet" (main.py:470-518) with the draft e:
\* a missing key or a failed call is caught and answered by "error saving"
SaveExpense(ud, led, e, env) ==
    LET row == [i \in 1..Width |-> e[RowKeys[i]]] IN
    IF ~DraftComplete(e) \/ env.save = "append"
    THEN ThenClear(Result(Put(ud, "expense", e), led, END, "error_saving", <<>>))
    ELSE ThenClear(Result(Put(ud, "expense", Saved(e, Len(led) + 1, env)),
                          append_row(led, row), END,
                          IF env.save = "ok" THEN "expense_saved" ELSE "error_saving",
                          <<[op |-> "append", row |-> Len(led) + 1, col |-> 0]>>))

\* receipt_upload (main.py:362-518)
receipt_upload(ud, led, ev, env) ==
    IF ~env.svc
    THEN Result(ud, led, END, "google_services_error", <<>>)
    ELSE IF ~Has(ud, "expense")
    THEN Raise(ud, led, "KeyError_expense")
    ELSE LET expense_data == ud["expense"] IN
         IF IsText(ev) /\ lower(ev.text) = "skip"
         THEN SaveExpense(ud, led, Put(expense_data, "upload", "No receipt"), env)
         ELSE IF ev.kind # "photo"
         THEN Result(ud, led, RECEIPT_UPLOAD, "please_upload_photo", <<>>)
         ELSE IF ~env.dl
         THEN Result(ud, led, RECEIPT_UPLOAD, "download_error", <<>>)
         ELSE IF Has(expense_data, "date") /\ Has(expense_data, "place") /\ env.up
         THEN SaveExpense(ud, led, Put(expense_data, "upload",
                                   "[View Receipt](https://drive/file)"), env)
         ELSE SaveExpense(ud, led, Put(expense_data, "upload", "Upload failed - error"), env)

\* the outcome of the calls of a listing or summary: ok, or the step that fails
ListEnvs == {"ok", "fail"}

\* the day before the date p, and the date k days before p
PrevDay(p) ==
    IF p[3] > 1 THEN <<p[1], p[2], p[3] - 1>>
    ELSE IF p[2] > 1 THEN <<p[1], p[2] - 1, DaysInMonth(p[1], p[2] - 1)>>
    ELSE <<p[1] - 1, 12, 31>>
RECURSIVE DaysBefore(_, _)
DaysBefore(p, k) == IF k = 0 THEN p ELSE DaysBefore(PrevDay(p), k - 1)

\* a date filter is a pair <<first, last>> of dates, both included
\* (main.py:667, 672, 678, 684, 739); <<>> is no filter
InRange_Exclusive(f, d) == DateLeq(f[1], d) /\ DateLeq(d, f[2]) /\ d # f[2]
InRange(f, d) == DateLeq(f[1], d) /\ DateLeq(d, f[2])

\* view_expenses, the rows to show (main.py:596-609): with a filter, the
\* rows whose date parses and passes it; without, the five last rows
Filtered_Oldest(expenses, f) ==
    IF f # <<>>
    THEN SelectSeq(expenses, LAMBDA e : Len(e) > 0 /\ strptime(e[1]) # <<>> /\ InRange(f, strptime(e[1])))
    ELSE IF Len(expenses) > 5 THEN SubSeq(expenses, 1, 5)
    ELSE expenses
Filtered(expenses, f) ==
    IF f # <<>>
    THEN SelectSeq(expenses,
                   LAMBDA e : Len(e) > 0 /\ strptime(e[1]) # <<>> /\ InRange(f, strptime(e[1])))
    ELSE IF Len(expenses) > 5 THEN SubSeq(expenses, Len(expenses) - 4, Len(expenses))
    ELSE expenses

\* view_expenses, one record of the message (main.py:619-639)
Entry(e) ==
    <<e[1], e[2], IF FloatLex(e[3]) # <<>> THEN Fmt2(FloatLex(e[3])[1]) ELSE e[3],
      e[4], e[6], e[7]>>

\* view_expenses (main.py:579-656): reads the ledger, writes nothing; the
\* message lists the filtered rows, the last one first
view_expenses(led, env, f) ==
    LET fe == Filtered(Tail(led), f) IN
    IF env = "fail" THEN [reply |-> "error_retrieving", shown |-> <<>>]
    ELSE IF Len(led) = 0 THEN [reply |-> "no_expenses_add_some", shown |-> <<>>]
    ELSE IF fe = <<>> THEN [reply |-> "no_expenses_for_period", shown |-> <<>>]
    ELSE [reply |-> "recent_expenses",
          shown |-> [i \in 1..Len(fe) |-> Entry(fe[Len(fe) + 1 - i])]]

\* a handler ends with the message of view_expenses
Viewed(ud, led, ret, v) == Showing(Result(ud, led, ret, v.reply, <<>>), v.shown)

\* show_expenses_for_edit (main.py:769-829)
show_expenses_for_edit(led, env) ==
    IF env = "fail" THEN "error_retrieving"
    ELSE IF Len(led) = 0 THEN "no_expenses_add_some"
    ELSE IF Len(led) = 1 THEN "no_expenses_to_edit"
    ELSE "select_expense_to_edit"

\* show_expenses_for_delete (main.py:1175-1235)
show_expenses_for_delete(led, env) ==
    IF env = "fail" THEN "error_retrieving"
    ELSE IF Len(led) = 0 THEN "no_expenses_add_some"
    ELSE IF Len(led) = 1 THEN "no_expenses_to_delete"
    ELSE "select_expense_to_delete"

\* the selection buttons of show_expenses_for_delete (main.py:1192-1219):
\* the ten most recent expenses, newest first; button i carries the sheet
\* row of its expense in its callback data and shows date, place and amount
DeleteButtons(led) ==
    LET expenses == IF Len(led) > 0 THEN Tail(led) ELSE <<>>
        n == Len(expenses)
        k == IF n > 10 THEN 10 ELSE n
    IN [i \in 1..k |->
          LET expense == expenses[n - i + 1]
              row_index == n - i + 1
              amount == IF Len(expense) >= 3 THEN FloatLex(expense[3]) ELSE <<>>
          IN [data |-> <<"delete", ToString(row_index + 1)>>,
              text |-> IF amount # <<>>
                       THEN <<expense[1], expense[2], Fmt2(amount[1])>>
                       ELSE <<"Expense #", ToString(i)>>,
              expense |-> expense]]

\* an edit list whose buttons carry the index among the expenses, the
\* header not counted
EditButtons_DataIndex(led) ==
    LET expenses == IF Len(led) > 0 THEN Tail(led) ELSE <<>>
        n == Len(expenses)
        k == IF n > 10 THEN 10 ELSE n
    IN [i \in 1..k |->
          LET expense == expenses[n - i + 1]
              row_index == n - i + 1
              amount == IF Len(expense) >= 3 THEN FloatLex(expense[3]) ELSE <<>>
          IN [data |-> <<"edit", ToString(row_index)>>,
              text |-> IF amount # <<>>
                       THEN <<expense[1], expense[2], Fmt2(amount[1])>>
                       ELSE <<"Expense #", ToString(i)>>,
              expense |-> expense]]

\* the selection buttons of show_expenses_for_edit (main.py:786-814): as
\* those of the delete list, with edit_<row> as callback data
EditButtons(led) ==
    LET expenses == IF Len(led) > 0 THEN Tail(led) ELSE <<>>
        n == Len(expenses)
        k == IF n > 10 THEN 10 ELSE n
    IN [i \in 1..k |->
          LET expense == expenses[n - i + 1]
              row_index == n - i + 1
              amount == IF Len(expense) >= 3 THEN FloatLex(expense[3]) ELSE <<>>
          IN [data |-> <<"edit", ToString(row_index + 1)>>,
              text |-> IF amount # <<>>
                       THEN <<expense[1], expense[2], Fmt2(amount[1])>>
                       ELSE <<"Expense #", ToString(i)>>,
              expense |-> expense]]

\* the sum, in hundredths, of the amounts float() accepts among the rows
RECURSIVE SumAmounts(_)
SumAmounts(rows) ==
    IF rows = <<>> THEN 0
    ELSE (IF FloatLex(Head(rows)[3]) # <<>> THEN FloatLex(Head(rows)[3])[1] ELSE 0)
         + SumAmounts(Tail(rows))

Summary_Recent(led) ==
    LET expenses == Tail(led)
        recent == IF Len(expenses) > 10 THEN SubSeq(expenses, Len(expenses) - 9, Len(expenses))
                  ELSE expenses
        Valid(e) == FloatLex(e[3]) # <<>>
        Month(e) == <<strptime(e[1])[1], strptime(e[1])[2]>>
        By(col) == [c \in {recent[i][col] : i \in {j \in 1..Len(recent) : Valid(recent[j])}} |->
                       SumAmounts(SelectSeq(recent, LAMBDA e : Valid(e) /\ e[col] = c))]
        dated == SelectSeq(expenses, LAMBDA e : Valid(e) /\ strptime(e[1]) # <<>>)
    IN [total_expenses |-> Len(expenses),
        total_amount |-> SumAmounts(expenses),
        categories |-> By(4),
        tags |-> By(6),
        months |-> [m \in {Month(dated[i]) : i \in 1..Len(dated)} |->
                       SumAmounts(SelectSeq(dated, LAMBDA e : Month(e) = m))]]

\* the figures of show_summary_stats (main.py:1381-1424): the number of
\* rows, the total amount, and the totals by category, by tag and by month
\* of the rows whose amount (and, by month, whose date) parses
Summary(led) ==
    LET expenses == Tail(led)
        Valid(e) == FloatLex(e[3]) # <<>>
        Month(e) == <<strptime(e[1])[1], strptime(e[1])[2]>>
        By(col) == [c \in {expenses[i][col] : i \in {j \in 1..Len(expenses) : Valid(expenses[j])}} |->
                       SumAmounts(SelectSeq(expenses, LAMBDA e : Valid(e) /\ e[col] = c))]
        dated == SelectSeq(expenses, LAMBDA e : Valid(e) /\ strptime(e[1]) # <<>>)
    IN [total_expenses |-> Len(expenses),
        total_amount |-> SumAmounts(expenses),
        categories |-> By(4),
        tags |-> By(6),
        months |-> [m \in {Month(dated[i]) : i \in 1..Len(dated)} |->
                       SumAmounts(SelectSeq(dated, LAMBDA e : Month(e) = m))]]

\* show_summary_stats (main.py:1357-1465)
show_summary_stats(led, env) ==
    IF env = "fail" THEN "error_summary"
    ELSE IF Len(led) = 0 THEN "no_expenses_add_some"
    ELSE IF Len(led) = 1 THEN "no_expenses_to_summarize"
    ELSE "expense_summary"

\* handle_menu_command (main.py:520-577)
handle_menu_command(ud, led, ev, env) ==
    LET d == ev.data IN
    IF d = <<"cmd", "start">>
    THEN Result(Put(ud, "expense", EmptyDict), led, CALENDAR_MONTH_SELECTION,
                "choose_date", <<>>)
    ELSE IF d = <<"cmd", "view">>
    THEN Viewed(ud, led, END, view_expenses(led, env, <<>>))
    ELSE IF d = <<"cmd", "view", "date">>
    THEN Result(ud, led, END, "select_period", <<>>)
    ELSE IF d = <<"cmd", "edit">>
    THEN Showing(Result(ud, led, END, show_expenses_for_edit(led, env), <<>>),
                 IF show_expenses_for_edit(led, env) = "select_expense_to_edit"
                 THEN EditButtons(led) ELSE <<>>)
    ELSE IF d = <<"cmd", "delete">>
    THEN Showing(Result(ud, led, END, show_expenses_for_delete(led, env), <<>>),
                 IF show_expenses_for_delete(led, env) = "select_expense_to_delete"
                 THEN DeleteButtons(led) ELSE <<>>)
    ELSE IF d = <<"cmd", "summary">>
    THEN Showing(Result(ud, led, END, show_summary_stats(led, env), <<>>),
                 IF show_summary_stats(led, env) = "expense_summary"
                 THEN <<Summary(led)>> ELSE <<>>)
    ELSE Result(ud, led, END, "", <<>>)

\* handle_view_date_callback (main.py:658-702)
handle_view_date_callback(ud, led, ev, env) ==
    LET d == ev.data IN
    LET today == strptime(Today) IN
    IF d = <<"view", "today">>
    THEN Viewed(ud, led, END, view_expenses(led, env, <<today, today>>))
    ELSE IF d = <<"view", "yesterday">>
    THEN Viewed(ud, led, END, view_expenses(led, env, <<PrevDay(today), PrevDay(today)>>))
    ELSE IF d = <<"view", "this", "week">>
    THEN Viewed(ud, led, END, view_expenses(led, env, <<DaysBefore(today, 7), today>>))
    ELSE IF d = <<"view", "this", "month">>
    THEN Viewed(ud, led, END,
                view_expenses(led, env, <<<<today[1], today[2], 1>>, today>>))
    ELSE IF d = <<"view", "custom">>
    THEN Result(Put(ud, "search_state", "start_date"), led, SEARCH_DATE_RANGE,
                "enter_start_date", <<>>)
    ELSE IF d = <<"back", "to", "menu">>
    THEN Result(ud, led, END, "main_menu", <<>>)
    ELSE Result(ud, led, END, "", <<>>)

\* a search that renders whatever the order of the two dates
search_date_range_AnyEnd(ud, led, ev, env) ==
    LET text == ev.text
        parsed == strptime(text)
    IN
    IF Has(ud, "search_state") /\ ud["search_state"] = "start_date"
    THEN IF parsed = <<>>
         THEN Result(ud, led, SEARCH_DATE_RANGE, "invalid_date_format", <<>>)
         ELSE Result(Put(Put(ud, "start_date", parsed), "search_state", "end_date"),
                     led, SEARCH_DATE_RANGE, "enter_end_date", <<>>)
    ELSE IF Has(ud, "search_state") /\ ud["search_state"] = "end_date"
    THEN IF parsed = <<>>
         THEN Result(ud, led, SEARCH_DATE_RANGE, "invalid_date_format", <<>>)
         ELSE IF ~Has(ud, "start_date")
         THEN Raise(ud, led, "TypeError_start_date")
         ELSE Viewed(Pop(Pop(ud, "search_state"), "start_date"), led, END,
                     view_expenses(led, env, <<ud["start_date"], parsed>>))
    ELSE Result(ud, led, END, "", <<>>)

\* search_date_range (main.py:704-767)
search_date_range(ud, led, ev, env) ==
    LET text == ev.text
        parsed == strptime(text)
    IN
    IF Has(ud, "search_state") /\ ud["search_state"] = "start_date"
    THEN IF parsed = <<>>
         THEN Result(ud, led, SEARCH_DATE_RANGE, "invalid_date_format", <<>>)
         ELSE Result(Put(Put(ud, "start_date", parsed), "search_state", "end_date"),
                     led, SEARCH_DATE_RANGE, "enter_end_date", <<>>)
    ELSE IF Has(ud, "search_state") /\ ud["search_state"] = "end_date"
    THEN IF parsed = <<>>
         THEN Result(ud, led, SEARCH_DATE_RANGE, "invalid_date_format", <<>>)
         ELSE IF ~Has(ud, "start_date")
         THEN Raise(ud, led, "TypeError_start_date")
         ELSE IF ~DateLeq(ud["start_date"], parsed)
         THEN Result(ud, led, SEARCH_DATE_RANGE, "end_before_start", <<>>)
         ELSE Viewed(Pop(Pop(ud, "search_state"), "start_date"), led, END,
                     view_expenses(led, env, <<ud["start_date"], parsed>>))
    ELSE Result(ud, led, END, "", <<>>)

\* a cancel that ends the conversation and keeps the context
cancel_KeepContext(ud, led, ev) == Result(ud, led, END, "operation_cancelled", <<>>)

\* cancel (main.py:1467-1483)
cancel(ud, led, ev) == Result(EmptyDict, led, END, "operation_cancelled", <<>>)

\* command_menu (main.py:1485-1492)
command_menu(ud, led, ev) == Result(ud, led, RetNone, "main_menu", <<>>)

----------------------------------------------------------------------------
(* Edit and delete sub-flows *)

\* user_data.get(k) when the key is absent (None)
None == -1

\* the call of handle_edit_selection that fails, if any
EditSelectEnvs == {"ok", "svc", "read", "reply"}

\* a selection that shows the field buttons without keeping the record read
handle_edit_selection_NoRecord(ud, led, ev, env) ==
    LET d == ev.data IN
    IF d = <<"back", "to", "menu">>
    THEN Result(ud, led, END, "main_menu", <<>>)
    ELSE IF ~(Len(d) >= 2 /\ IsInt(d[2]))
    THEN Result(ud, led, END, "error_processing_selection", <<>>)
    ELSE LET row_index == ToInt(d[2])
             ud1 == Put(ud, "edit_row_index", row_index)
             expense == row_values(led, row_index)
         IN
         IF env \in {"svc", "read"}
         THEN Result(ud1, led, END, "error_processing_selection", <<>>)
         ELSE IF Len(expense) < Width
         THEN Result(ud1, led, END, "could_not_retrieve", <<>>)
         ELSE IF env = "reply"
         THEN Result(ud1, led, END, "error_processing_selection", <<>>)
         ELSE Result(ud1, led, EDIT_FIELD, "select_field", <<>>)

\* handle_edit_selection (main.py:831-909)
handle_edit_selection(ud, led, ev, env) ==
    LET d == ev.data IN
    IF d = <<"back", "to", "menu">>
    THEN Result(ud, led, END, "main_menu", <<>>)
    ELSE IF ~(Len(d) >= 2 /\ IsInt(d[2]))
    THEN Result(ud, led, END, "error_processing_selection", <<>>)
    ELSE LET row_index == ToInt(d[2])
             ud1 == Put(ud, "edit_row_index", row_index)
             expense == row_values(led, row_index)
             ud2 == Put(ud1, "edit_expense", expense)
         IN
         IF env \in {"svc", "read"}
         THEN Result(ud1, led, END, "error_processing_selection", <<>>)
         ELSE IF Len(expense) < Width
         THEN Result(ud1, led, END, "could_not_retrieve", <<>>)
         ELSE IF env = "reply"
         THEN Result(ud2, led, END, "error_processing_selection", <<>>)
         ELSE Result(ud2, led, EDIT_FIELD, "select_field", <<>>)

\* handle_edit_field_selection (main.py:911-996)
handle_edit_field_selection(ud, led, ev, env) ==
    LET d == ev.data IN
    IF d = <<"back", "to", "edit", "list">>
    THEN Result(ud, led, END, show_expenses_for_edit(led, env), <<>>)
    ELSE IF ~(Len(d) >= 3 /\ IsInt(d[3]))
    THEN Result(ud, led, END, "error_selecting_field", <<>>)
    ELSE LET field_index == ToInt(d[3])
             ud1 == Put(ud, "edit_field_index", field_index)
         IN
         IF field_index = 3
         THEN Result(ud1, led, EDIT_VALUE, "select_category", <<>>)
         ELSE IF field_index = 5
         THEN Result(ud1, led, EDIT_VALUE, "select_tag", <<>>)
         ELSE IF field_index = 0
         THEN Result(Put(ud1, "edit_mode", TRUE), led, CALENDAR_MONTH_SELECTION,
                     "select_new_date", <<>>)
         ELSE IF field_index = 6
         THEN Result(Put(ud1, "edit_mode", TRUE), led, RECEIPT_UPLOAD,
                     "upload_new_receipt", <<>>)
         ELSE IF field_index < Width
         THEN Result(ud1, led, EDIT_VALUE, "enter_new_value", <<>>)
         ELSE Result(ud1, led, END, "error_selecting_field", <<>>)

\* the call of update_expense_field that fails, if any
UpdateEnvs == {"ok", "svc", "read1", "write", "read2", "reply"}

\* an update that confirms with the row as it was read before the write
update_expense_field_ShowsOld(ud, led, row_index, field_index, new_value, env) ==
    IF env \in {"svc", "read1", "write"} \/ row_index = None \/ field_index = None
    THEN Result(ud, led, END, "error_updating", <<>>)
    ELSE LET led1 == update_cell(led, row_index, field_index + 1, new_value)
             updated_values == row_values(led1, row_index)
             ops == <<[op |-> "update", row |-> row_index, col |-> field_index + 1]>>
         IN
         IF env \in {"read2", "reply"} \/ Len(updated_values) < Width
         THEN Result(ud, led1, END, "error_updating", ops)
         ELSE Showing(Result(Pop(Pop(Pop(Pop(ud, "edit_row_index"), "edit_field_index"),
                                     "edit_expense"), "edit_mode"),
                             led1, END, "expense_updated", ops),
                      <<row_values(led, row_index)>>)

\* update_expense_field (main.py:1126-1173): the confirmation displays the
\* row read after the write
update_expense_field(ud, led, row_index, field_index, new_value, env) ==
    IF env \in {"svc", "read1", "write"} \/ row_index = None \/ field_index = None
    THEN Result(ud, led, END, "error_updating", <<>>)
    ELSE LET led1 == update_cell(led, row_index, field_index + 1, new_value)
             updated_values == row_values(led1, row_index)
             ops == <<[op |-> "update", row |-> row_index, col |-> field_index + 1]>>
         IN
         IF env \in {"read2", "reply"} \/ Len(updated_values) < Width
         THEN Result(ud, led1, END, "error_updating", ops)
         ELSE Showing(Result(Pop(Pop(Pop(Pop(ud, "edit_row_index"), "edit_field_index"),
                                     "edit_expense"), "edit_mode"),
                             led1, END, "expense_updated", ops),
                      <<updated_values>>)

\* handle_edit_value (main.py:998-1124)
handle_edit_value(ud, led, ev, env) ==
    LET d == ev.data
        row_index == Get(ud, "edit_row_index", None)
        field_index == Get(ud, "edit_field_index", None)
    IN
    IF IsPress(ev)
    THEN IF d = <<"back", "to", "fields">>
         THEN IF ~Has(ud, "edit_row_index") \/ ud["edit_row_index"] = 0
                 \/ ~Has(ud, "edit_expense") \/ ud["edit_expense"] = <<>>
              THEN Result(ud, led, END, "lost_context", <<>>)
              ELSE IF env = "reply"
              THEN Raise(ud, led, "BadRequest_markdown")
              ELSE Result(ud, led, EDIT_FIELD, "select_field", <<>>)
         ELSE IF StartsWith(d, "setcat") \/ StartsWith(d, "settag")
         THEN update_expense_field(ud, led, row_index, field_index, d[2], env)
         ELSE IF d = <<"back", "to", "menu">>
         THEN Result(ud, led, END, "main_menu", <<>>)
         ELSE IF StartsWith(d, "day") /\ Get(ud, "edit_mode", FALSE)
         THEN update_expense_field(ud, led, row_index, field_index, Join(Tail(d)), env)
         ELSE Result(ud, led, RetNone, "", <<>>)
    ELSE LET amount == FloatLex(ev.text) IN
         IF field_index = 2 /\ amount = <<>>
         THEN Result(ud, led, EDIT_VALUE, "invalid_amount", <<>>)
         ELSE update_expense_field(ud, led, row_index, field_index,
                                   IF field_index = 2 THEN Fmt2(amount[1]) ELSE ev.text,
                                   env)

\* the call of handle_delete_selection / handle_delete_confirm that fails, if any
DeleteEnvs == {"ok", "svc", "call"}

\* handle_delete_selection (main.py:1237-1297)
handle_delete_selection(ud, led, ev, env) ==
    LET d == ev.data IN
    IF d = <<"back", "to", "menu">>
    THEN Result(ud, led, END, "main_menu", <<>>)
    ELSE IF ~(Len(d) >= 2 /\ IsInt(d[2]))
    THEN Result(ud, led, END, "error_processing_selection", <<>>)
    ELSE LET row_index == ToInt(d[2])
             ud1 == Put(ud, "delete_row_index", row_index)
             expense == row_values(led, row_index)
         IN
         IF env \in {"svc", "call"}
         THEN Result(ud1, led, END, "error_processing_selection", <<>>)
         ELSE IF Len(expense) < 3
         THEN Result(ud1, led, END, "could_not_retrieve", <<>>)
         ELSE Result(Put(ud1, "delete_expense", expense), led, DELETE_CONFIRM,
                     "confirm_delete", <<>>)

\* a confirmation that re-reads the row and refuses when it no longer holds
\* the record stored at selection
handle_delete_confirm_Rechecked(ud, led, ev, env) ==
    LET d == ev.data
        row_index == Get(ud, "delete_row_index", None)
        context == {"delete_row_index", "delete_expense"}
    IN
    IF d = <<"cancel", "delete">>
    THEN Result(ud, led, END, "deletion_cancelled", <<>>)
    ELSE IF d = <<"confirm", "delete">>
    THEN IF env \in {"svc", "call"} \/ row_index = None
         THEN ThenDrop(Result(ud, led, END, "error_deleting", <<>>), context)
         ELSE IF row_values(led, row_index) # Get(ud, "delete_expense", <<>>)
         THEN ThenDrop(Result(ud, led, END, "record_changed", <<>>), context)
         ELSE ThenDrop(Result(ud, delete_row(led, row_index), END, "expense_deleted",
                              <<[op |-> "delete", row |-> row_index, col |-> 0]>>),
                       context)
    ELSE Result(ud, led, END, "", <<>>)

\* handle_delete_confirm (main.py:1299-1355)
handle_delete_confirm(ud, led, ev, env) ==
    LET d == ev.data
        row_index == Get(ud, "delete_row_index", None)
        context == {"delete_row_index", "delete_expense"}
    IN
    IF d = <<"cancel", "delete">>
    THEN Result(ud, led, END, "deletion_cancelled", <<>>)
    ELSE IF d = <<"confirm", "delete">>
    THEN IF env \in {"svc", "call"} \/ row_index = None
         THEN ThenDrop(Result(ud, led, END, "error_deleting", <<>>), context)
         ELSE ThenDrop(Result(ud, delete_row(led, row_index), END, "expense_deleted",
                              <<[op |-> "delete", row |-> row_index, col |-> 0]>>),
                       context)
    ELSE Result(ud, led, END, "", <<>>)

----------------------------------------------------------------------------
(* The state machine: one action per handler.  An action is the whole      *)
(* handling of one event: dispatch, the handler, and the state update.     *)

NoEvent == [kind |-> "none", text |-> "", data |-> <<>>]
NoLast ==
    [u |-> "", h |-> "none", via |-> "none", ev |-> NoEvent,
     ret |-> RetNone, reply |-> "", ops |-> <<>>, shown |-> <<>>]

\* rows an earlier run of the entry flow has appended
Row1 == <<"2025.01.01", "Cafe", "12.5", "Food", "R1", "Personal", "No receipt">>
Row2 == <<"2025.01.01", "Cafe", "12.5", "Food", "R1", "Personal",
          "[View Receipt](https://drive/file)">>
InitLedgers == {<<HeaderRow>>, <<HeaderRow, Row1>>, <<HeaderRow, Row1, Row2>>}

InitWith(us) ==
    /\ overlap = FALSE
    /\ active = us
    /\ conv = [u \in Users |-> END]
    /\ user_data = [u \in Users |-> EmptyDict]
    /\ ledger \in InitLedgers
    /\ last = NoLast
    /\ flows = [u \in Users |-> 0]
    /\ inflight = [u \in Users |-> <<>>]

Init == InitWith({"u1"})

\* the context of the user when the handler has returned
Final(res) ==
    IF res.clear THEN EmptyDict
    ELSE IF res.drop = {} THEN res.ud
    ELSE [q \in (DOMAIN res.ud) \ res.drop |-> res.ud[q]]

\* a handling that keeps one context for all users
Serve_SharedContext(u, ev, r, res) ==
    /\ Len(res.led) <= MaxRows + 1
    /\ conv' = [conv EXCEPT ![u] = NewState(conv[u], r.via, res.ret)]
    /\ flows' = [flows EXCEPT ![u] =
                    IF \/ /\ r.via \in {"entry", "global"}
                          /\ <<conv'[u], Final(res), res.led>> # <<conv[u], user_data[u], ledger>>
                       \/ /\ r.via = "fallback" /\ r.h = "start"
                          /\ res.ret = CALENDAR_MONTH_SELECTION
                    THEN @ + 1 ELSE @]
    /\ flows'[u] <= MaxFlows
    /\ user_data' = [v \in Users |-> Final(res)]
    /\ ledger' = res.led
    /\ last' = IF r.via \in {"entry", "global", "none"}
                  /\ <<conv'[u], Final(res), res.led>> = <<conv[u], user_data[u], ledger>>
               THEN last
               ELSE [u |-> u, h |-> r.h, via |-> r.via, ev |-> ev,
                     ret |-> res.ret, reply |-> res.reply, ops |-> res.ops,
                     shown |-> res.shown]
    /\ UNCHANGED <<active, inflight, overlap>>

\* the event ev of user u, routed to r, is handled with result res and no
\* other event of u is taken up before the handler has returned
Serve(u, ev, r, res) ==
    /\ Len(res.led) <= MaxRows + 1
    /\ conv' = [conv EXCEPT ![u] = NewState(conv[u], r.via, res.ret)]
    /\ flows' = [flows EXCEPT ![u] =
                    IF \/ /\ r.via \in {"entry", "global"}
                          /\ <<conv'[u], Final(res), res.led>> # <<conv[u], user_data[u], ledger>>
                       \/ /\ r.via = "fallback" /\ r.h = "start"
                          /\ res.ret = CALENDAR_MONTH_SELECTION
                    THEN @ + 1 ELSE @]
    /\ flows'[u] <= MaxFlows
    /\ user_data' = [user_data EXCEPT ![u] = Final(res)]
    /\ ledger' = res.led
    /\ last' = IF r.via \in {"entry", "global", "none"}
                  /\ <<conv'[u], Final(res), res.led>> = <<conv[u], user_data[u], ledger>>
               THEN last
               ELSE [u |-> u, h |-> r.h, via |-> r.via, ev |-> ev,
                     ret |-> res.ret, reply |-> res.reply, ops |-> res.ops,
                     shown |-> res.shown]
    /\ UNCHANGED <<active, inflight, overlap>>

\* concurrent_updates(True) (main.py:1500): the event ev of user u is routed
\* by the state the conversation has now and its handler runs up to its last
\* reply, whatever handlers of u have not returned yet; the handler is then
\* in flight, its new state not yet stored
Begin(u, ev, r, res) ==
    IF r.via = "none"
    THEN UNCHANGED vars
    ELSE /\ Len(res.led) <= MaxRows + 1
         /\ Len(inflight[u]) < MaxInflight
         /\ flows[u] < MaxFlows
         /\ flows' = [flows EXCEPT ![u] = @ + 1]
         /\ user_data' = [user_data EXCEPT ![u] = res.ud]
         /\ ledger' = res.led
         /\ inflight' = [inflight EXCEPT ![u] =
                            Append(@, [h |-> r.h, via |-> r.via, ret |-> res.ret,
                                       clear |-> res.clear, drop |-> res.drop,
                                       ops |-> res.ops])]
         /\ last' = [u |-> u, h |-> r.h, via |-> r.via, ev |-> ev,
                     ret |-> res.ret, reply |-> res.reply, ops |-> res.ops,
                     shown |-> res.shown]
         /\ UNCHANGED <<active, conv, overlap>>

\* the event ev of user u, routed to r, is handled with result res
Handle(u, ev, r, res) ==
    IF overlap THEN Begin(u, ev, r, res) ELSE Serve(u, ev, r, res)

HandlerNames ==
    {"start", "command_menu", "cancel", "handle_calendar_month", "handle_calendar_day",
     "date_input", "place_input", "amount_input", "category_callback",
     "receipt_number_input", "tag_callback", "receipt_upload", "handle_menu_command",
     "handle_view_date_callback", "search_date_range", "handle_edit_selection",
     "handle_edit_field_selection", "handle_edit_value", "handle_delete_selection",
     "handle_delete_confirm", "none"}

\* the events of the model that, sent in a state, the dispatcher gives to handler h
EventsFor ==
    [state \in ActiveStates \cup {END}, h \in HandlerNames |->
        {ev \in EventsIn(state) : Route(state, ev).h = h}]

Start ==
    \E u \in active : \E ev \in EventsFor[conv[u], "start"] :
        Handle(u, ev, Route(conv[u], ev), start(user_data[u], ledger, ev))

CommandMenu ==
    \E u \in active : \E ev \in EventsFor[conv[u], "command_menu"] :
        Handle(u, ev, Route(conv[u], ev), command_menu(user_data[u], ledger, ev))

Cancel ==
    \E u \in active : \E ev \in EventsFor[conv[u], "cancel"] :
        Handle(u, ev, Route(conv[u], ev), cancel(user_data[u], ledger, ev))

HandleCalendarMonth ==
    \E u \in active : \E ev \in EventsFor[conv[u], "handle_calendar_month"] :
        Handle(u, ev, Route(conv[u], ev),
                  handle_calendar_month(user_data[u], ledger, ev))

HandleCalendarDay ==
    \E u \in active : \E ev \in EventsFor[conv[u], "handle_calendar_day"] :
        Handle(u, ev, Route(conv[u], ev),
                  handle_calendar_day(user_data[u], ledger, ev))

DateInput ==
    \E u \in active : \E ev \in EventsFor[conv[u], "date_input"] :
        Handle(u, ev, Route(conv[u], ev), date_input(user_data[u], ledger, ev))

PlaceInput ==
    \E u \in active : \E ev \in EventsFor[conv[u], "place_input"] :
        Handle(u, ev, Route(conv[u], ev), place_input(user_data[u], ledger, ev))

AmountInput ==
    \E u \in active : \E ev \in EventsFor[conv[u], "amount_input"] :
        Handle(u, ev, Route(conv[u], ev), amount_input(user_data[u], ledger, ev))

CategoryCallback ==
    \E u \in active : \E ev \in EventsFor[conv[u], "category_callback"] :
        Handle(u, ev, Route(conv[u], ev),
                  category_callback(user_data[u], ledger, ev))

ReceiptNumberInput ==
    \E u \in active : \E ev \in EventsFor[conv[u], "receipt_number_input"] :
        Handle(u, ev, Route(conv[u], ev),
                  receipt_number_input(user_data[u], ledger, ev))

TagCallback ==
    \E u \in active : \E ev \in EventsFor[conv[u], "tag_callback"] :
        Handle(u, ev, Route(conv[u], ev), tag_callback(user_data[u], ledger, ev))

ReceiptUpload ==
    \E u \in active : \E ev \in EventsFor[conv[u], "receipt_upload"] : \E env \in UploadEnvs :
        Handle(u, ev, Route(conv[u], ev),
                  receipt_upload(user_data[u], ledger, ev, env))

HandleMenuCommand ==
    \E u \in active : \E ev \in EventsFor[conv[u], "handle_menu_command"] : \E env \in ListEnvs :
        Handle(u, ev, Route(conv[u], ev),
                  handle_menu_command(user_data[u], ledger, ev, env))

HandleViewDateCallback ==
    \E u \in active : \E ev \in EventsFor[conv[u], "handle_view_date_callback"] : \E env \in ListEnvs :
        Handle(u, ev, Route(conv[u], ev),
                  handle_view_date_callback(user_data[u], ledger, ev, env))

SearchDateRange ==
    \E u \in active : \E ev \in EventsFor[conv[u], "search_date_range"] : \E env \in ListEnvs :
        Handle(u, ev, Route(conv[u], ev),
                  search_date_range(user_data[u], ledger, ev, env))

HandleEditSelection ==
    \E u \in active : \E ev \in EventsFor[conv[u], "handle_edit_selection"] : \E env \in EditSelectEnvs :
        Handle(u, ev, Route(conv[u], ev),
                  handle_edit_selection(user_data[u], ledger, ev, env))

HandleEditFieldSelection ==
    \E u \in active : \E ev \in EventsFor[conv[u], "handle_edit_field_selection"] : \E env \in ListEnvs :
        Handle(u, ev, Route(conv[u], ev),
                  handle_edit_field_selection(user_data[u], ledger, ev, env))

HandleEditValue ==
    \E u \in active : \E ev \in EventsFor[conv[u], "handle_edit_value"] : \E env \in UpdateEnvs :
        Handle(u, ev, Route(conv[u], ev),
                  handle_edit_value(user_data[u], ledger, ev, env))

HandleDeleteSelection ==
    \E u \in active : \E ev \in EventsFor[conv[u], "handle_delete_selection"] : \E env \in DeleteEnvs :
        Handle(u, ev, Route(conv[u], ev),
                  handle_delete_selection(user_data[u], ledger, ev, env))

HandleDeleteConfirm ==
    \E u \in active : \E ev \in EventsFor[conv[u], "handle_delete_confirm"] : \E env \in DeleteEnvs :
        Handle(u, ev, Route(conv[u], ev),
                  handle_delete_confirm(user_data[u], ledger, ev, env))

\* no handler of the group accepts the event: it is dropped
Unhandled ==
    \E u \in active : \E ev \in EventsFor[conv[u], "none"] :
        Handle(u, ev, NoHandler, Result(user_data[u], ledger, RetNone, "", <<>>))

Next ==
    \/ Start
    \/ CommandMenu
    \/ Cancel
    \/ HandleCalendarMonth
    \/ HandleCalendarDay
    \/ DateInput
    \/ PlaceInput
    \/ AmountInput
    \/ CategoryCallback
    \/ ReceiptNumberInput
    \/ TagCallback
    \/ ReceiptUpload
    \/ HandleMenuCommand
    \/ HandleViewDateCallback
    \/ SearchDateRange
    \/ HandleEditSelection
    \/ HandleEditFieldSelection
    \/ HandleEditValue
    \/ HandleDeleteSelection
    \/ HandleDeleteConfirm
    \/ Unhandled

Spec == Init /\ [][Next]_vars

\* a handler in flight returns: its trailing clear() or pop() runs and the
\* conversation stores the state it returned (END drops the state, None and
\* an escaped exception leave it, a handler outside the conversation has none)
Return ==
    \E u \in active : \E i \in DOMAIN inflight[u] :
        LET c == inflight[u][i] IN
        /\ inflight' = [inflight EXCEPT ![u] =
                           SubSeq(@, 1, i - 1) \o SubSeq(@, i + 1, Len(@))]
        /\ conv' = [conv EXCEPT ![u] = NewState(@, c.via, c.ret)]
        /\ user_data' = [user_data EXCEPT ![u] =
                            IF c.clear THEN EmptyDict
                            ELSE [q \in (DOMAIN @) \ c.drop |-> @[q]]]
        /\ UNCHANGED <<active, ledger, last, flows, overlap>>

\* sessions in the middle of a flow, as the handlers leave them
Draft(n) ==
    [k \in {RowKeys[i] : i \in 1..n} |->
        CASE k = "date" -> "2025.01.01" [] k = "place" -> "Cafe"
          [] k = "amount" -> "12.5" [] k = "category" -> "Food"
          [] k = "receipt_number" -> "R1" [] k = "tag" -> "Personal"]
Sessions ==
    {<<END, EmptyDict>>,
     <<CALENDAR_MONTH_SELECTION, Put(EmptyDict, "expense", EmptyDict)>>,
     <<PLACE, Put(EmptyDict, "expense", Draft(1))>>,
     <<CATEGORY, Put(EmptyDict, "expense", Draft(3))>>,
     <<TAG, Put(EmptyDict, "expense", Draft(5))>>,
     <<RECEIPT_UPLOAD, Put(EmptyDict, "expense", Draft(6))>>,
     <<EDIT_FIELD,
       handle_edit_selection(EmptyDict, <<HeaderRow, Row1>>,
                             Press(<<"edit", "2">>), "ok").ud>>,
     <<DELETE_CONFIRM,
       handle_delete_selection(EmptyDict, <<HeaderRow, Row1, Row2>>,
                               Press(<<"delete", "2">>), "ok").ud>>}

InitConc ==
    /\ overlap = TRUE
    /\ active = {"u1"}
    /\ \E s \in Sessions :
          /\ conv = [u \in Users |-> IF u \in active THEN s[1] ELSE END]
          /\ user_data = [u \in Users |-> IF u \in active THEN s[2] ELSE EmptyDict]
          /\ ledger = CASE s[1] = RECEIPT_UPLOAD -> <<HeaderRow>>
                         [] s[1] = DELETE_CONFIRM -> <<HeaderRow, Row1, Row2>>
                         [] OTHER -> <<HeaderRow, Row1>>
    /\ last = NoLast
    /\ flows = [u \in Users |-> 0]
    /\ inflight = [u \in Users |-> <<>>]

NextConc == Next \/ Return

\* the bot as main() builds it: handlers of one session may overlap
SpecConc == InitConc /\ [][NextConc]_vars

\* two users, each with a conversation and a context of their own
\* (per_chat, per_user, main.py:1541-1542), over the one ledger: u1 is at
\* the menu, u2 has selected the first expense for deletion and has no
\* menu-level event left
InitTwo ==
    /\ overlap = FALSE
    /\ active = Users
    /\ conv = [u \in Users |-> IF u = "u1" THEN END ELSE DELETE_CONFIRM]
    /\ user_data = [u \in Users |->
                      IF u = "u1" THEN EmptyDict
                      ELSE handle_delete_selection(EmptyDict, <<HeaderRow, Row1, Row2>>,
                                                   Press(<<"delete", "2">>), "ok").ud]
    /\ ledger = <<HeaderRow, Row1, Row2>>
    /\ last = NoLast
    /\ flows = [u \in Users |-> IF u = "u1" THEN MaxFlows - 1 ELSE MaxFlows]
    /\ inflight = [u \in Users |-> <<>>]

SpecTwo == InitTwo /\ [][Next]_vars

\* a session at the menu, or in SEARCH_DATE_RANGE with a start date entered,
\* over a sheet of any content: the sheet can hold any text, so the rows are
\* out of date order, some with a date or an amount that does not parse; the
\* place of a row tells the rows apart
InitList ==
    LET dates == <<"2025.01.02", "2025.01.01", "abc", "2025.01.03", "2024.12.31",
                   "2025.01.04">>
        amounts(v) == IF v = 0 THEN <<"12.5", "7", "7.00">> ELSE <<"12.5", "abc", "7", "-3">>
        ListRow(j, v) ==
            <<dates[(j % 6) + 1], ToString(j), amounts(v)[(j % Len(amounts(v))) + 1],
              IF j % 2 = 0 THEN "Food" ELSE "Other", "R1",
              IF j % 3 = 0 THEN "Personal" ELSE "Business", "No receipt">>
        ListLedgers ==
            {<<>>} \cup
            {<<HeaderRow>> \o [i \in 1..n |-> ListRow(i + k, v)] :
                n \in 0..MaxListRows, k \in 0..5, v \in 0..1}
    IN
    /\ overlap = FALSE
    /\ active = {"u1"}
    /\ ledger \in ListLedgers
    /\ \E s \in {<<>>, <<2025, 1, 1>>, <<2025, 1, 2>>} :
          /\ conv = [u \in Users |-> IF u = "u1" /\ s # <<>> THEN SEARCH_DATE_RANGE ELSE END]
          /\ user_data = [u \in Users |->
                            IF u = "u1" /\ s # <<>>
                            THEN Put(Put(EmptyDict, "start_date", s), "search_state", "end_date")
                            ELSE EmptyDict]
    /\ last = NoLast
    /\ flows = [u \in Users |-> 0]
    /\ inflight = [u \in Users |-> <<>>]

\* the event ev of user u, routed to r, is handled with result res
Show(u, ev, r, res) ==
    /\ conv' = [conv EXCEPT ![u] = NewState(conv[u], r.via, res.ret)]
    /\ user_data' = [user_data EXCEPT ![u] = Final(res)]
    /\ ledger' = res.led
    /\ last' = [u |-> u, h |-> r.h, via |-> r.via, ev |-> ev,
                ret |-> res.ret, reply |-> res.reply, ops |-> res.ops,
                shown |-> res.shown]
    /\ UNCHANGED <<active, flows, inflight, overlap>>

\* a menu button that lists or summarises
ListMenu ==
    \E u \in active : \E env \in ListEnvs :
    \E d \in {<<"cmd", "view">>, <<"cmd", "edit">>, <<"cmd", "delete">>, <<"cmd", "summary">>} :
        /\ Route(conv[u], Press(d)).h = "handle_menu_command"
        /\ Show(u, Press(d), Route(conv[u], Press(d)),
                handle_menu_command(user_data[u], ledger, Press(d), env))

\* a button of the period menu
ListPeriod ==
    \E u \in active : \E env \in ListEnvs :
    \E d \in {<<"view", "today">>, <<"view", "yesterday">>, <<"view", "this", "week">>,
              <<"view", "this", "month">>} :
        /\ Route(conv[u], Press(d)).h = "handle_view_date_callback"
        /\ Show(u, Press(d), Route(conv[u], Press(d)),
                handle_view_date_callback(user_data[u], ledger, Press(d), env))

\* the end date of a custom search
ListSearch ==
    \E u \in active : \E env \in ListEnvs :
    \E t \in {"2025.01.01", "2025.01.02", "2025.01.03", "abc"} :
        /\ Route(conv[u], Text(t)).h = "search_date_range"
        /\ Show(u, Text(t), Route(conv[u], Text(t)),
                search_date_range(user_data[u], ledger, Text(t), env))

NextList == ListMenu \/ ListPeriod \/ ListSearch

\* listings, searches and summaries over ledgers of any content
SpecList == InitList /\ [][NextList]_vars

\* a month menu that keeps the year when the months pass January
get_calendar_keyboard_SameYear(now) ==
    LET month_date(i) ==
            LET month == now[2] - i
                y == now[1]
                m == IF month < 1 THEN month + 12 ELSE month
                d == IF now[3] < DaysInMonth(y, m) THEN now[3] ELSE DaysInMonth(y, m)
            IN <<y, m, d>>
    IN [i \in 1..6 |-> << [text |-> <<month_date(i - 1)[2], month_date(i - 1)[1]>>,
                           data |-> <<"month", ToString(month_date(i - 1)[2]),
                                      ToString(month_date(i - 1)[1])>>] >>]
       \o << << [text |-> "Today", data |-> <<"date", "today">>],
                [text |-> "Manual Entry", data |-> <<"date", "manual">>] >>,
             << [text |-> "Back to Menu", data |-> <<"back", "to", "menu">>] >> >>

\* get_calendar_keyboard (main.py:115-137) at the clock reading now = <<y, m, d>>;
\* now - relativedelta(months=i) for i < 12 takes i from the month, borrows a
\* year when the month falls below 1, and cuts the day to the length of the
\* month reached; the label "%B %Y" is kept as <<month, year>>
get_calendar_keyboard(now) ==
    LET month_date(i) ==
            LET month == now[2] - i
                y == IF month < 1 THEN now[1] - 1 ELSE now[1]
                m == IF month < 1 THEN month + 12 ELSE month
                d == IF now[3] < DaysInMonth(y, m) THEN now[3] ELSE DaysInMonth(y, m)
            IN <<y, m, d>>
    IN [i \in 1..6 |-> << [text |-> <<month_date(i - 1)[2], month_date(i - 1)[1]>>,
                           data |-> <<"month", ToString(month_date(i - 1)[2]),
                                      ToString(month_date(i - 1)[1])>>] >>]
       \o << << [text |-> "Today", data |-> <<"date", "today">>],
                [text |-> "Manual Entry", data |-> <<"date", "manual">>] >>,
             << [text |-> "Back to Menu", data |-> <<"back", "to", "menu">>] >> >>

\* a session that has pressed New Expense and sees the month menu
InitGrid ==
    /\ overlap = FALSE
    /\ active = {"u1"}
    /\ ledger = <<HeaderRow>>
    /\ conv = [u \in Users |-> IF u = "u1" THEN CALENDAR_MONTH_SELECTION ELSE END]
    /\ user_data = [u \in Users |->
                      IF u = "u1" THEN start(EmptyDict, ledger, Press(<<"cmd", "start">>)).ud
                      ELSE EmptyDict]
    /\ last = NoLast
    /\ flows = [u \in Users |-> 0]
    /\ inflight = [u \in Users |-> <<>>]

\* a month button, of this year's month menu or of an older one: leap and
\* common years, century years of both kinds, and every weekday for the
\* first of a month
GridMonth ==
    \E u \in active : \E m \in 1..12 : \E y \in {1900, 2000, 2100} \cup (2020..2030) :
        LET ev == Press(<<"month", ToString(m), ToString(y)>>) IN
        /\ Route(conv[u], ev).h = "handle_calendar_month"
        /\ Show(u, ev, Route(conv[u], ev), handle_calendar_month(user_data[u], ledger, ev))

\* the Manual Entry button of the month menu, and then a text in DATE:
\* dates in and out of the form YYYY.MM.DD, a day that does not exist, and
\* 'today' in three letter cases
GridDate ==
    \E u \in active :
        \/ LET ev == Press(<<"date", "manual">>) IN
           /\ ~Has(user_data[u], "calendar_month")
           /\ Route(conv[u], ev).h = "handle_calendar_month"
           /\ Show(u, ev, Route(conv[u], ev),
                   handle_calendar_month(user_data[u], ledger, ev))
        \/ \E t \in {"2025.01.01", "2024.02.29", "2024.12.31", "0999.01.01", "2025.1.1",
                      "2025.02.30", "abc", "today", "Today", "TODAY"} :
              /\ Route(conv[u], Text(t)).h = "date_input"
              /\ Show(u, Text(t), Route(conv[u], Text(t)),
                      date_input(user_data[u], ledger, Text(t)))

\* the New Expense button, pressed before a month is chosen on any day of
\* 2024 or 2025: the reply shows the month menu of the clock reading
GridMenu ==
    \E u \in active : \E y \in {2024, 2025} : \E m \in 1..12 : \E d \in 1..DaysInMonth(y, m) :
        LET ev == Press(<<"cmd", "start">>) IN
        /\ ~Has(user_data[u], "calendar_month")
        /\ Route(conv[u], ev).h = "start"
        /\ Show(u, ev, Route(conv[u], ev),
                Showing(start(user_data[u], ledger, ev),
                        [now |-> <<y, m, d>>, keyboard |-> get_calendar_keyboard(<<y, m, d>>)]))

\* a button of the day grid on the screen: a day or a navigation button,
\* which handle_calendar_day takes, or a blank one, which no handler takes
GridPress ==
    \E u \in active :
        /\ conv[u] = CALENDAR_DAY_SELECTION
        /\ LET kb == get_days_keyboard(user_data[u]["calendar_month"],
                                       user_data[u]["calendar_year"])
           IN \E r \in 1..Len(kb) : \E c \in 1..Len(kb[r]) :
                 LET ev == Press(kb[r][c].data) IN
                 /\ Route(conv[u], ev).h \in {"handle_calendar_day", "none"}
                 /\ Show(u, ev, Route(conv[u], ev),
                         IF Route(conv[u], ev) = NoHandler
                         THEN Result(user_data[u], ledger, RetNone, "", <<>>)
                         ELSE handle_calendar_day(user_data[u], ledger, ev))

NextGrid == GridMenu \/ GridMonth \/ GridDate \/ GridPress

\* the day grids of the months of GridYears and the presses on their cells
SpecGrid == InitGrid /\ [][NextGrid]_vars

----------------------------------------------------------------------------
(* Properties.  In every state, last describes the step that led to it     *)
(* (steps that change nothing and are handled outside the conversation     *)
(* states leave every variable as it is).                                  *)

\* the scratch context of a user is absent
Cleared(u) == user_data[u] = EmptyDict

\* the step appended a row to the ledger
AppendStep == ledger' # ledger /\ last'.ops # <<>> /\ last'.ops[1].op = "append"

\* what the attachment cell of an appended row can hold (main.py:390, 448, 461, 468)
AttachmentValues ==
    {"No receipt", "[View Receipt](https://drive/file)", "Upload failed - error",
     "Processing error"}

\* C1: the ledger grows only by an append of receipt_upload, and then the
\* user's draft held date, place, amount, category, receipt number and tag
\* before the step, the new row carries exactly these six values, and its
\* attachment cell is set to a link or a sentinel.
C1_AppendOnlyCompleteDraft ==
    [][ /\ Len(ledger') > Len(ledger) => AppendStep /\ last'.h = "receipt_upload"
        /\ AppendStep =>
              LET u == last'.u IN
              /\ Has(user_data[u], "expense")
              /\ \A i \in 1..(Width - 1) : Has(user_data[u]["expense"], RowKeys[i])
              /\ Len(ledger') = Len(ledger) + 1
              /\ SubSeq(ledger', 1, Len(ledger)) = ledger
              /\ \A i \in 1..(Width - 1) :
                    ledger'[Len(ledger')][i] = user_data[u]["expense"][RowKeys[i]]
              /\ ledger'[Len(ledger')][Width] \in AttachmentValues
      ]_vars

\* C1 witness: receipt_upload has appended a row
C1_Witness ==
    /\ last.h = "receipt_upload"
    /\ last.ops # <<>> /\ last.ops[1].op = "append"
    /\ Len(ledger) = last.ops[1].row

\* C2 (as claimed): a user in MENU has no scratch context
C2_MenuHasNoScratch == \A u \in active : conv[u] = END => Cleared(u)

\* texts that are no valid date / no number, whatever the parser says
InvalidDateTexts == {"2025.02.30", "2025.13.01", "abc"}
NotNumberTexts == {"abc"}

\* the step handled an event of user u in state st with handler h
Handled(u, st, h) == vars' # vars /\ last'.u = u /\ last'.h = h /\ conv[u] = st

\* the step left the state and the scratch context of u (draft, edit and
\* search context) and the ledger as they were
Reprompted(u) ==
    /\ conv'[u] = conv[u]
    /\ user_data'[u] = user_data[u]
    /\ ledger' = ledger

\* C3: an invalid date in DATE, a non-number in AMOUNT or in EDIT_VALUE for
\* the amount field, and an invalid date or an end date before the start
\* date in SEARCH_DATE_RANGE are answered by a corrective prompt, and the
\* state, the draft, the edit context and the search context stay as they were.
C3_ValidationReprompts ==
    [][ \A u \in active :
        /\ Handled(u, DATE, "date_input") /\ last'.ev.text \in InvalidDateTexts
              => Reprompted(u) /\ last'.reply = "use_date_format"
        /\ Handled(u, AMOUNT, "amount_input") /\ last'.ev.text \in NotNumberTexts
              => Reprompted(u) /\ last'.reply = "enter_valid_number"
        /\ Handled(u, EDIT_VALUE, "handle_edit_value") /\ last'.ev.kind = "text"
           /\ last'.ev.text \in NotNumberTexts
           /\ Get(user_data[u], "edit_field_index", None) = 2
              => Reprompted(u) /\ last'.reply = "invalid_amount"
        /\ Handled(u, SEARCH_DATE_RANGE, "search_date_range")
           /\ last'.ev.text \in InvalidDateTexts
              => Reprompted(u) /\ last'.reply = "invalid_date_format"
        /\ Handled(u, SEARCH_DATE_RANGE, "search_date_range")
           /\ Get(user_data[u], "search_state", "") = "end_date"
           /\ last'.ev.text = "2025.01.01"
           /\ Get(user_data[u], "start_date", <<>>) = <<2025, 1, 3>>
              => Reprompted(u) /\ last'.reply = "end_before_start"
      ]_vars

\* C3 witness: an end date before the start date has been rejected
C3_Witness ==
    /\ last.h = "search_date_range" /\ last.reply = "end_before_start"
    /\ conv[last.u] = SEARCH_DATE_RANGE
    /\ user_data[last.u]["start_date"] = <<2025, 1, 3>>

\* replies of the branches that catch a failed ledger or attachment call in
\* the entry, edit and delete flows
ServiceErrorReplies ==
    {"google_services_error", "error_processing_selection", "error_updating",
     "error_deleting"}

\* C4 (as claimed): after a caught service failure the user is in MENU with
\* draft, edit context and delete context cleared
C4_ServiceErrorClears ==
    \A u \in active :
        last.u = u /\ last.reply \in ServiceErrorReplies
            => conv[u] = END /\ Cleared(u)

\* C5: when receipt_upload has reached its save step (the reply is the
\* confirmation or "error saving"), the user is in MENU and no scratch
\* context, hence no draft, is left, whether or not the row was appended.
C5_SaveStepClears ==
    \A u \in active :
        last.u = u /\ last.h = "receipt_upload"
        /\ last.reply \in {"expense_saved", "error_saving"}
            => conv[u] = END /\ Cleared(u)

\* C5 witness: the save step of an uploaded receipt failed to append the row
C5_Witness ==
    /\ last.h = "receipt_upload" /\ last.reply = "error_saving"
    /\ last.ops = <<>>
    /\ last.ev.kind = "photo"

\* C6 (as claimed): the events of one session are handled one after the
\* other: a handler of a user begins, reading the conversation state and the
\* context, only when no handler of that user is still in flight
C6_Serialized ==
    [][ \A u \in active :
            Len(inflight'[u]) > Len(inflight[u]) => inflight[u] = <<>> ]_vars

\* user u has just chosen field f of the row it selected for edit, and the
\* field selection sent it to state st
ChoseField(u, f, st) ==
    /\ last.u = u /\ last.h = "handle_edit_field_selection"
    /\ last.ev.data = <<"edit", "field", ToString(f)>>
    /\ last.ret = st /\ conv[u] = st
    /\ Has(user_data[u], "edit_row_index")

\* led2 is led but for the cell of row r in column c
OnlyCell(led, led2, r, c) ==
    /\ Len(led2) = Len(led)
    /\ \A i \in 1..Len(led) : \A j \in 1..Width :
          <<i, j>> # <<r, c>> => led2[i][j] = led[i][j]

\* C7 (as claimed): for each field 0..6, the first step of the user after
\* the field was chosen changes the ledger, if at all, only in the cell of
\* the stored row and the chosen field: no row is appended or deleted.
C7_EditWritesOneCell ==
    [][ \A u \in active : \A f \in 0..(Width - 1) : \A st \in ActiveStates :
            ChoseField(u, f, st) /\ vars' # vars /\ last'.u = u
                => OnlyCell(ledger, ledger', user_data[u]["edit_row_index"], f + 1)
      ]_vars

\* C8 (as claimed): after the date field was chosen, the Today shortcut of
\* the calendar writes today's date to the date cell of the stored row and
\* ends the edit in MENU, not in PLACE.
C8_DateEditUpdatesCell ==
    [][ \A u \in active :
            ChoseField(u, 0, CALENDAR_MONTH_SELECTION)
            /\ Handled(u, CALENDAR_MONTH_SELECTION, "handle_calendar_month")
            /\ last'.ev.data = <<"date", "today">>
                => /\ conv'[u] = END
                   /\ ledger'[user_data[u]["edit_row_index"]][1] = Today
      ]_vars

\* C9 (as claimed): after the attachment field was chosen, an image or
\* 'skip' ends the edit in MENU (the services being reachable); 'skip'
\* leaves the ledger as it was and an image changes only the attachment
\* cell of the stored row.
C9_AttachmentEditCompletes ==
    [][ \A u \in active :
            ChoseField(u, 6, RECEIPT_UPLOAD)
            /\ Handled(u, RECEIPT_UPLOAD, "receipt_upload")
            /\ (last'.ev.kind = "photo" \/ lower(last'.ev.text) = "skip")
            /\ last'.reply \notin {"google_services_error", "download_error"}
                => /\ conv'[u] = END
                   /\ IF last'.ev.kind = "photo"
                      THEN OnlyCell(ledger, ledger', user_data[u]["edit_row_index"], Width)
                      ELSE ledger' = ledger
      ]_vars

\* C10 (as claimed): the category of a draft is one of CATEGORIES and its tag
\* is one of TAGS, whatever button was pressed in CATEGORY or TAG
C10_DraftInFixedSets ==
    \A u \in active :
        Has(user_data[u], "expense") =>
            LET e == user_data[u]["expense"] IN
            /\ Has(e, "category") => e["category"] \in CATEGORIES
            /\ Has(e, "tag") => e["tag"] \in TAGS

\* the step wrote cell (r, c) of the ledger with update_cell
UpdateStep(r, c) ==
    /\ vars' # vars /\ last'.ops # <<>>
    /\ last'.ops[1] = [op |-> "update", row |-> r, col |-> c]

\* C11 (as claimed): whatever handle_edit_value writes to a category cell is
\* one of CATEGORIES and whatever it writes to a tag cell is one of TAGS,
\* for button presses and text messages alike
C11_EditedCategoryTagInFixedSets ==
    [][ \A r \in 2..(MaxRows + 1) :
            /\ UpdateStep(r, 4) /\ last'.h = "handle_edit_value"
                  => ledger'[r][4] \in CATEGORIES
            /\ UpdateStep(r, 6) /\ last'.h = "handle_edit_value"
                  => ledger'[r][6] \in TAGS
      ]_vars

\* texts that parse to a number that is not positive
NonPositiveTexts == {"0", "-3"}

\* C12 (as claimed): zero and negative amounts are rejected with a re-prompt
\* in the same state, in AMOUNT and in EDIT_VALUE for the amount field
C12_NonPositiveAmountRejected ==
    [][ \A u \in active :
        /\ Handled(u, AMOUNT, "amount_input") /\ last'.ev.text \in NonPositiveTexts
              => Reprompted(u)
        /\ Handled(u, EDIT_VALUE, "handle_edit_value") /\ last'.ev.kind = "text"
           /\ last'.ev.text \in NonPositiveTexts
           /\ Get(user_data[u], "edit_field_index", None) = 2
              => Reprompted(u)
      ]_vars

\* presses the handler of the state has no branch for
Unrecognised(ud, st, d) ==
    \/ st = CALENDAR_MONTH_SELECTION /\ d = <<"back", "to", "months">>
    \/ st = CALENDAR_DAY_SELECTION /\ d = <<"back", "to", "fields">>
    \/ st = EDIT_VALUE /\ StartsWith(d, "day") /\ ~Get(ud, "edit_mode", FALSE)

\* C13 (as claimed): a press whose tag the handler of the active state does
\* not recognise takes the session to MENU; the state never stays as it was
C13_UnroutedTagFailsClosed ==
    [][ \A u \in active :
            ( /\ vars' # vars /\ last'.u = u /\ last'.ev.kind = "press"
              /\ last'.via = "state"
              /\ Unrecognised(user_data[u], conv[u], last'.ev.data) )
                => conv'[u] = END
      ]_vars

\* the event needs the draft: a date choice in the calendar, or 'skip' or an
\* image in RECEIPT_UPLOAD
NeedsDraft(st, ev) ==
    \/ st = CALENDAR_MONTH_SELECTION /\ ev.data = <<"date", "today">>
    \/ st = CALENDAR_DAY_SELECTION /\ ev.kind = "press" /\ StartsWith(ev.data, "day")
    \/ st = RECEIPT_UPLOAD /\ (ev.kind = "photo" \/ lower(ev.text) = "skip")

\* the event commits an edit or a delete
NeedsRow(st, ev) ==
    \/ st = EDIT_VALUE /\ (ev.kind = "text" \/ StartsWith(ev.data, "setcat")
                           \/ StartsWith(ev.data, "settag"))
    \/ st = DELETE_CONFIRM /\ ev.data = <<"confirm", "delete">>

\* C14 (as claimed): a step that finds the context it needs missing (the
\* draft in the calendar or in RECEIPT_UPLOAD, the stored row index in
\* EDIT_VALUE or DELETE_CONFIRM) ends in MENU and leaves the ledger as it was
C14_LostContextAborts ==
    [][ \A u \in active :
            ( /\ vars' # vars /\ last'.u = u /\ last'.via = "state"
              /\ \/ NeedsDraft(conv[u], last'.ev) /\ ~Has(user_data[u], "expense")
                 \/ /\ NeedsRow(conv[u], last'.ev)
                    /\ ~Has(user_data[u], "edit_row_index")
                    /\ ~Has(user_data[u], "delete_row_index") )
                => conv'[u] = END /\ ledger' = ledger
      ]_vars

\* the sentinels of a failed attachment (main.py:461, 468)
FailureSentinels == {"Upload failed - error", "Processing error"}

\* the draft of user u holds the six fields the user enters
SixFieldsSet(u) ==
    /\ Has(user_data[u], "expense")
    /\ \A i \in 1..(Width - 1) : Has(user_data[u]["expense"], RowKeys[i])

\* C15 (as claimed): an image sent in RECEIPT_UPLOAD with the six fields set
\* always ends in MENU with the record appended (the ledger being
\* reachable), and when the image could not be obtained or uploaded the
\* attachment cell of the new row is a failure sentinel
C15_ImageFailureStillSaves ==
    [][ \A u \in active :
            ( /\ Handled(u, RECEIPT_UPLOAD, "receipt_upload")
              /\ last'.ev.kind = "photo" /\ SixFieldsSet(u)
              /\ last'.reply \notin {"google_services_error", "error_saving"} )
                => /\ conv'[u] = END
                   /\ Len(ledger') = Len(ledger) + 1
                   /\ last'.reply = "download_error"
                         => ledger'[Len(ledger')][Width] \in FailureSentinels
      ]_vars

\* a sequence without its n-th element
Without(q, n) == [i \in 1..(Len(q) - 1) |-> IF i < n THEN q[i] ELSE q[i + 1]]

\* the records behind the buttons of a delete listing, oldest first
Listed(led) ==
    LET b == DeleteButtons(led) IN [i \in 1..Len(b) |-> b[Len(b) + 1 - i].expense]

\* C16: with one session acting, (1) a selection button of the listing of
\* the ledger leads to a confirmation that stores the row and the record
\* of that button, and (2) a confirmed deletion removes exactly the stored
\* row, which still holds the stored record: the ledger is the previous
\* one without that row, later rows shifted up by one, and the next
\* listing is the previous listing without that record
C16_DeleteRemovesSelectedRow ==
    [][ \A u \in active :
          /\ ( /\ Handled(u, END, "handle_delete_selection")
               /\ conv'[u] = DELETE_CONFIRM )
                => \E i \in 1..Len(DeleteButtons(ledger)) :
                      LET b == DeleteButtons(ledger)[i] IN
                      /\ b.data = last'.ev.data
                      /\ ledger[user_data'[u]["delete_row_index"]] = b.expense
                      /\ user_data'[u]["delete_expense"] = Trim(b.expense)
          /\ ( /\ Handled(u, DELETE_CONFIRM, "handle_delete_confirm")
               /\ last'.ev.data = <<"confirm", "delete">>
               /\ last'.reply = "expense_deleted" )
                => LET n == Get(user_data[u], "delete_row_index", None) IN
                   /\ n \in 2..Len(ledger)
                   /\ Trim(ledger[n]) = Get(user_data[u], "delete_expense", <<>>)
                   /\ ledger' = Without(ledger, n)
                   /\ Listed(ledger') = Without(Listed(ledger), n - 1)
      ]_vars

\* a confirmed deletion of the first of two expenses has shifted the second up
C16_Witness ==
    /\ last.h = "handle_delete_confirm" /\ last.reply = "expense_deleted"
    /\ last.ops[1].row = 2
    /\ ledger = <<HeaderRow, Row2>>

\* the row that user u selected for deletion no longer holds the record
\* stored at selection
StaleDelete(u) ==
    /\ Has(user_data[u], "delete_row_index") /\ Has(user_data[u], "delete_expense")
    /\ row_values(ledger, user_data[u]["delete_row_index"]) # user_data[u]["delete_expense"]

\* the row that user u selected for editing no longer holds the original record
StaleEdit(u) ==
    /\ Has(user_data[u], "edit_row_index") /\ Has(user_data[u], "edit_expense")
    /\ row_values(ledger, user_data[u]["edit_row_index"]) # user_data[u]["edit_expense"]

\* C17: nothing re-checks a row reference.  With two sessions, (1) a
\* confirmation of a deletion whose row no longer holds the stored record
\* removes that row all the same, unless the sheet call fails, and (2) a text
\* committed to a field other than the amount of a row that no longer holds
\* the original record is written to that row all the same
C17_StaleRowActedOn ==
    [][ \A u \in active :
          /\ ( /\ Handled(u, DELETE_CONFIRM, "handle_delete_confirm")
               /\ last'.ev.data = <<"confirm", "delete">>
               /\ StaleDelete(u)
               /\ last'.reply # "error_deleting" )
                => /\ last'.reply = "expense_deleted"
                   /\ ledger' = delete_row(ledger, user_data[u]["delete_row_index"])
          /\ ( /\ Handled(u, EDIT_VALUE, "handle_edit_value")
               /\ last'.ev.kind = "text"
               /\ StaleEdit(u)
               /\ Get(user_data[u], "edit_field_index", None) \in {1, 4}
               /\ last'.ops # <<>> )
                => LET r == user_data[u]["edit_row_index"]
                       c == user_data[u]["edit_field_index"] + 1
                   IN /\ last'.ops[1] = [op |-> "update", row |-> r, col |-> c]
                      /\ ledger'[r][c] = last'.ev.text
      ]_vars

\* a committed edit has written to a row that, outside the written cell,
\* differs from the original record still stored in the editor's context
C17_Witness ==
    \E u \in active :
        /\ last.u = u /\ last.h = "handle_edit_value" /\ last.ops # <<>>
        /\ Has(user_data[u], "edit_expense")
        /\ LET r == last.ops[1].row
               c == last.ops[1].col
           IN /\ r = user_data[u]["edit_row_index"]
              /\ r \in 1..Len(ledger)
              /\ \E k \in (1..Width) \ {c} : ledger[r][k] # user_data[u]["edit_expense"][k]

\* C18: a step that handles an event of one user leaves the conversation
\* state and the whole context (draft, edit, delete and search context) of
\* every other user unchanged, in every interleaving of two sessions
C18_SessionsIndependent ==
    [][ \A a \in active : \A b \in active \ {a} :
            (vars' # vars /\ last'.u = a)
                => conv'[b] = conv[b] /\ user_data'[b] = user_data[b]
      ]_vars

\* u1 has just moved on in its edit while u2 waits with a delete context
C18_Witness ==
    /\ last.u = "u1" /\ last.h = "handle_edit_field_selection"
    /\ conv["u1"] = EDIT_VALUE /\ Has(user_data["u1"], "edit_field_index")
    /\ conv["u2"] = DELETE_CONFIRM /\ Has(user_data["u2"], "delete_expense")

\* the edges of the state graph between active states and from the menu
GraphEdges ==
    {<<END, CALENDAR_MONTH_SELECTION>>,
     <<CALENDAR_MONTH_SELECTION, CALENDAR_DAY_SELECTION>>,
     <<CALENDAR_DAY_SELECTION, PLACE>>, <<PLACE, AMOUNT>>, <<AMOUNT, CATEGORY>>,
     <<CATEGORY, RECEIPT_NUMBER>>, <<RECEIPT_NUMBER, TAG>>, <<TAG, RECEIPT_UPLOAD>>,
     <<CALENDAR_MONTH_SELECTION, DATE>>, <<DATE, PLACE>>,
     <<END, SEARCH_DATE_RANGE>>,
     <<END, EDIT_FIELD>>, <<EDIT_FIELD, EDIT_VALUE>>,
     <<END, DELETE_CONFIRM>>}

\* C19 (as claimed): every change of the conversation state of a user
\* follows an edge of the state graph or leads to the menu
C19_OnlyGraphEdges ==
    [][ \A u \in active :
            conv'[u] # conv[u]
                => conv'[u] = END \/ <<conv[u], conv'[u]>> \in GraphEdges
      ]_vars

\* the /cancel command sent in the state st with context ud is routed to
\* cancel, which ends the conversation and leaves no scratch context
CancelAccepted(st, ud, led) ==
    LET ev == Command("cancel")
        r == Route(st, ev)
        res == cancel(ud, led, ev)
    IN /\ r.h = "cancel"
       /\ NewState(st, r.via, res.ret) = END
       /\ Final(res) = EmptyDict

\* C20: in every reachable active state the /cancel command is accepted and
\* leads to the menu with the scratch context cleared, and every step that
\* handles /cancel in an active state does so
C20_CancelAlwaysAccepted ==
    [][ \A u \in active :
          /\ conv[u] \in ActiveStates => CancelAccepted(conv[u], user_data[u], ledger)
          /\ conv'[u] \in ActiveStates => CancelAccepted(conv'[u], user_data'[u], ledger')
          /\ ( /\ vars' # vars /\ last'.u = u /\ conv[u] \in ActiveStates
               /\ last'.ev = Command("cancel") )
                => last'.h = "cancel" /\ conv'[u] = END /\ user_data'[u] = EmptyDict
      ]_vars

\* /cancel has just ended a flow through the fallbacks and nothing is left
C20_Witness ==
    /\ last.h = "cancel" /\ last.via = "fallback" /\ last.ev = Command("cancel")
    /\ conv[last.u] = END /\ Cleared(last.u)

\* the events of the end-to-end entry run, the state each is sent in and
\* the number of fields the draft holds by then
RunEvents ==
    <<Press(<<"date", "manual">>), Text("2025.01.01"), Text("Cafe"), Text("12.5"),
      Press(<<"Food">>), Text("R1"), Press(<<"Personal">>), Text("skip")>>
RunStates ==
    <<CALENDAR_MONTH_SELECTION, DATE, PLACE, AMOUNT, CATEGORY, RECEIPT_NUMBER, TAG,
      RECEIPT_UPLOAD, END>>
RunFields == <<0, 0, 1, 2, 3, 4, 5, 6>>
RunContext(i) == Put(EmptyDict, "expense", Draft(RunFields[i]))

\* C21: from the menu with an empty context and a ledger holding only the
\* header, New Expense opens the month view with an empty draft; from there
\* each event of the run, sent in the state and with the draft the run has
\* reached, leads to the next state with the entered field added, the
\* ledger untouched; the final 'skip', when the ledger service answers,
\* appends the one row (2025.01.01, Cafe, 12.5, Food, R1, Personal,
\* No receipt) and ends at the menu with the context cleared
C21_EndToEndRun ==
    [][ \A u \in active :
          /\ ( /\ vars' # vars /\ last'.u = u
               /\ conv[u] = END /\ user_data[u] = EmptyDict /\ ledger = <<HeaderRow>>
               /\ last'.ev = Press(<<"cmd", "start">>) )
                => /\ conv'[u] = RunStates[1] /\ user_data'[u] = RunContext(1)
                   /\ ledger' = ledger
          /\ \A i \in 1..7 :
               ( /\ vars' # vars /\ last'.u = u
                 /\ conv[u] = RunStates[i] /\ user_data[u] = RunContext(i)
                 /\ ledger = <<HeaderRow>> /\ last'.ev = RunEvents[i] )
                  => /\ conv'[u] = RunStates[i + 1] /\ user_data'[u] = RunContext(i + 1)
                     /\ ledger' = ledger
          /\ ( /\ vars' # vars /\ last'.u = u
               /\ conv[u] = RunStates[8] /\ user_data[u] = RunContext(8)
               /\ ledger = <<HeaderRow>> /\ last'.ev = RunEvents[8]
               /\ last'.reply \notin {"google_services_error", "error_saving"} )
                => /\ conv'[u] = END /\ user_data'[u] = EmptyDict
                   /\ ledger' = <<HeaderRow,
                                  <<"2025.01.01", "Cafe", "12.5", "Food", "R1", "Personal",
                                    "No receipt">> >>
      ]_vars

\* the run has ended: one row appended by 'skip', the session at the menu
C21_Witness ==
    /\ last.h = "receipt_upload" /\ last.ev = Text("skip") /\ last.reply = "expense_saved"
    /\ ledger = <<HeaderRow,
                  <<"2025.01.01", "Cafe", "12.5", "Food", "R1", "Personal", "No receipt">> >>
    /\ conv[last.u] = END /\ Cleared(last.u)

\* C22: the confirmation of a committed edit displays the row as the ledger
\* holds it after the write
C22_ConfirmationReadAfterWrite ==
    [][ \A u \in active :
            ( /\ vars' # vars /\ last'.u = u
              /\ last'.h = "handle_edit_value" /\ last'.reply = "expense_updated" )
                => /\ last'.ops # <<>> /\ last'.ops[1].op = "update"
                   /\ ledger' = update_cell(ledger, last'.ops[1].row, last'.ops[1].col,
                                            ledger'[last'.ops[1].row][last'.ops[1].col])
                   /\ last'.shown = <<row_values(ledger', last'.ops[1].row)>>
      ]_vars

\* an edit has been confirmed with a row that differs from the row before
\* the write
C22_Witness ==
    /\ last.h = "handle_edit_value" /\ last.reply = "expense_updated"
    /\ last.shown = <<row_values(ledger, last.ops[1].row)>>
    /\ last.shown[1][2] = "7"

\* the replies with which view_expenses ends a search
RenderReplies ==
    {"recent_expenses", "no_expenses_for_period", "no_expenses_add_some",
     "error_retrieving"}

\* C23: a search step renders only in SEARCH_DATE_RANGE in the end-date
\* phase, with a valid start date stored and a valid end date not before it,
\* and then ends at the menu with phase and start date removed; a valid
\* start date moves to the end-date phase without rendering; an end date
\* before the start date re-prompts and changes nothing
C23_SearchTwoPhase ==
    [][ \A u \in active :
          /\ ( /\ vars' # vars /\ last'.u = u /\ last'.h = "search_date_range"
               /\ last'.reply \in RenderReplies )
                => /\ conv[u] = SEARCH_DATE_RANGE
                   /\ Get(user_data[u], "search_state", "") = "end_date"
                   /\ Has(user_data[u], "start_date")
                   /\ strptime(strftime(user_data[u]["start_date"])) = user_data[u]["start_date"]
                   /\ strptime(last'.ev.text) # <<>>
                   /\ DateLeq(user_data[u]["start_date"], strptime(last'.ev.text))
                   /\ conv'[u] = END
                   /\ ~Has(user_data'[u], "search_state") /\ ~Has(user_data'[u], "start_date")
          /\ ( /\ Handled(u, SEARCH_DATE_RANGE, "search_date_range")
               /\ Get(user_data[u], "search_state", "") = "start_date"
               /\ strptime(last'.ev.text) # <<>> )
                => /\ conv'[u] = SEARCH_DATE_RANGE /\ last'.reply = "enter_end_date"
                   /\ user_data'[u] = Put(Put(user_data[u], "start_date", strptime(last'.ev.text)),
                                          "search_state", "end_date")
          /\ ( /\ Handled(u, SEARCH_DATE_RANGE, "search_date_range")
               /\ Get(user_data[u], "search_state", "") = "end_date"
               /\ Has(user_data[u], "start_date")
               /\ strptime(last'.ev.text) # <<>>
               /\ ~DateLeq(user_data[u]["start_date"], strptime(last'.ev.text)) )
                => Reprompted(u) /\ last'.reply = "end_before_start"
      ]_vars

\* a search from 2025.01.01 to 2025.01.03 has been rendered
C23_Witness ==
    /\ last.h = "search_date_range" /\ last.reply = "recent_expenses"
    /\ last.ev.text = "2025.01.03"
    /\ conv[last.u] = END /\ ~Has(user_data[last.u], "search_state")

\* the number of expenses of the ledger
Rows(led) == IF Len(led) = 0 THEN 0 ELSE Len(led) - 1
Least(a, b) == IF a < b THEN a ELSE b

\* C24: whatever the ledger holds, the default listing shows its last
\* min(5, n) rows and the edit and delete lists offer its last min(10, n)
\* rows, the last row first, each button carrying the sheet row of its
\* expense; the header row is never among them
C24_ListsLastRowsFirst ==
    [][ \A u \in active :
          /\ ( /\ vars' # vars /\ last'.u = u /\ last'.h = "handle_menu_command"
               /\ last'.ev.data = <<"cmd", "view">> /\ last'.reply # "error_retrieving" )
                => /\ Len(last'.shown) = Least(5, Rows(ledger))
                   /\ \A i \in 1..Len(last'.shown) :
                         /\ Len(ledger) + 1 - i >= 2
                         /\ last'.shown[i] = Entry(ledger[Len(ledger) + 1 - i])
          /\ \A k \in {"edit", "delete"} :
               ( /\ vars' # vars /\ last'.u = u /\ last'.h = "handle_menu_command"
                 /\ last'.ev.data = <<"cmd", k>> /\ last'.reply # "error_retrieving" )
                  => /\ Len(last'.shown) = Least(10, Rows(ledger))
                     /\ \A i \in 1..Len(last'.shown) :
                           /\ Len(ledger) + 1 - i >= 2
                           /\ last'.shown[i].data = <<k, ToString(Len(ledger) + 1 - i)>>
                           /\ last'.shown[i].expense = ledger[Len(ledger) + 1 - i]
      ]_vars

\* the edit list of a ledger of twelve expenses offers ten, the last first,
\* though the last row is not the latest by date
C24_Witness ==
    /\ last.h = "handle_menu_command" /\ last.ev.data = <<"cmd", "edit">>
    /\ Len(ledger) = 13 /\ Len(last.shown) = 10
    /\ last.shown[1].expense = ledger[13]
    /\ ledger[13][1] = "2025.01.02" /\ ledger[12][1] = "2025.01.04"

\* the day of a parsed date as one number, ordered as the calendar is
DayNum(p) == p[1] * 10000 + p[2] * 100 + p[3]
\* the sheet rows of led whose date parses and lies in start..end
RowsWithin(led, from, to) ==
    {i \in 2..Len(led) :
        /\ strptime(led[i][1]) # <<>>
        /\ DayNum(from) <= DayNum(strptime(led[i][1]))
        /\ DayNum(strptime(led[i][1])) <= DayNum(to)}
DatesShown(shown) == {shown[i][1] : i \in 1..Len(shown)}

\* C25: a search that reaches the listing shows exactly the rows whose date
\* parses and lies between the start and the end date, both included; rows
\* with a date that does not parse are passed over and the rest still listed
C25_RangeInclusive ==
    [][ \A u \in active :
          ( /\ vars' # vars /\ last'.u = u /\ last'.h = "search_date_range"
            /\ last'.ret = END /\ last'.reply # "error_retrieving" )
           => LET within == RowsWithin(ledger, user_data[u]["start_date"],
                                       strptime(last'.ev.text))
              IN /\ Len(last'.shown) = Cardinality(within)
                 /\ \A i \in within :
                       \E k \in 1..Len(last'.shown) : last'.shown[k] = Entry(ledger[i])
                 /\ \A k \in 1..Len(last'.shown) :
                       \E i \in within : last'.shown[k] = Entry(ledger[i])
                 /\ (last'.reply = "recent_expenses") = (within # {})
      ]_vars

\* a search from 2025.01.01 to 2025.01.03 over a ledger that also holds the
\* day before, the day after and a date that does not parse lists both ends
\* and neither neighbour
C25_Witness ==
    /\ last.h = "search_date_range" /\ last.reply = "recent_expenses"
    /\ last.ev.text = "2025.01.03"
    /\ {"2024.12.31", "2025.01.04", "abc"} \subseteq {ledger[i][1] : i \in 2..Len(ledger)}
    /\ DatesShown(last.shown) = {"2025.01.01", "2025.01.02", "2025.01.03"}
    /\ conv["u1"] = END /\ ~Has(user_data["u1"], "start_date")

\* the sum of the values of a table of totals
RECURSIVE SumOf(_)
SumOf(t) ==
    IF DOMAIN t = {} THEN 0
    ELSE LET c == CHOOSE x \in DOMAIN t : TRUE
         IN t[c] + SumOf([x \in DOMAIN t \ {c} |-> t[x]])
AllAmountsValid(led) == \A i \in 2..Len(led) : FloatLex(led[i][3]) # <<>>
SummaryStep(u) ==
    /\ vars' # vars /\ last'.u = u /\ last'.h = "handle_menu_command"
    /\ last'.ev.data = <<"cmd", "summary">> /\ last'.reply = "expense_summary"

\* C26: in a summary of a ledger whose amounts all parse, the totals by
\* category add up to the total amount, and so do the totals by tag
C26_GroupTotalsAddUp ==
    [][ \A u \in active :
          (SummaryStep(u) /\ AllAmountsValid(ledger))
           => /\ SumOf(last'.shown[1].categories) = last'.shown[1].total_amount
              /\ SumOf(last'.shown[1].tags) = last'.shown[1].total_amount
      ]_vars

\* a summary of twelve expenses with valid amounts in two categories and
\* two tags
C26_Witness ==
    /\ last.h = "handle_menu_command" /\ last.ev.data = <<"cmd", "summary">>
    /\ last.reply = "expense_summary"
    /\ Len(ledger) = 13 /\ AllAmountsValid(ledger)
    /\ Cardinality(DOMAIN last.shown[1].categories) = 2
    /\ Cardinality(DOMAIN last.shown[1].tags) = 2
    /\ last.shown[1].total_amount > 0
    /\ SumOf(last.shown[1].categories) = last.shown[1].total_amount

\* the ledger without the rows whose amount float() rejects
ValidOnly(led) == <<Head(led)>> \o SelectSeq(Tail(led), LAMBDA e : FloatLex(e[3]) # <<>>)

\* C27: in a summary, a row whose amount does not parse adds to none of
\* the figures (number of expenses, total amount, totals by category, by
\* tag, by month), and every row whose amount parses adds to each of them
C27_InvalidAmountInNoAggregate ==
    [][ \A u \in active :
          SummaryStep(u)
           => LET s == last'.shown[1]
                  valid == ValidOnly(ledger)
              IN /\ s.total_expenses = Rows(valid)
                 /\ s.total_amount = SumAmounts(Tail(valid))
                 /\ SumOf(s.categories) = s.total_amount
                 /\ SumOf(s.tags) = s.total_amount
                 /\ SumOf(s.months) = s.total_amount
      ]_vars

\* the rows of day and blank cells of a keyboard: all but the navigation row
DayRows(kb) == SubSeq(kb, 1, Len(kb) - 1)
RECURSIVE Flat(_)
Flat(rows) == IF rows = <<>> THEN <<>> ELSE Head(rows) \o Flat(Tail(rows))
\* the weekday of the first of a month by Zeller's congruence, Monday 0
FirstWeekday(y, m) ==
    LET mm == IF m < 3 THEN m + 12 ELSE m
        yy == IF m < 3 THEN y - 1 ELSE y
        h == (1 + ((13 * (mm + 1)) \div 5) + (yy % 100) + ((yy % 100) \div 4)
                + ((yy \div 100) \div 4) + 5 * (yy \div 100)) % 7
    IN (h + 5) % 7
\* the length of a month by the knuckle rule and the Gregorian leap rule
MonthLength(y, m) ==
    IF m = 2
    THEN (IF y % 400 = 0 THEN 29 ELSE IF y % 100 = 0 THEN 28 ELSE IF y % 4 = 0 THEN 29 ELSE 28)
    ELSE IF m <= 7 THEN 30 + (m % 2) ELSE 31 - (m % 2)
\* a month button has been pressed and its day grid is shown
GridShown ==
    /\ last.h = "handle_calendar_month" /\ last.reply = "select_day"
    /\ Len(last.ev.data) = 3

C29_RowsOfSeven ==
    GridShown =>
        LET rows == DayRows(last.shown) IN
        /\ Len(rows) >= 1
        /\ \A r \in 1..(Len(rows) - 1) : Len(rows[r]) = 7
        /\ Len(rows[Len(rows)]) \in 1..7
        /\ \A r1, r2 \in 1..Len(rows) : \A c1 \in 1..Len(rows[r1]) : \A c2 \in 1..Len(rows[r2]) :
              (rows[r1][c1].data # <<"ignore">> /\ rows[r1][c1] = rows[r2][c2])
                 => (r1 = r2 /\ c1 = c2)

\* the grid of February 2021, whose 28th day is the 7th cell of the fourth
\* row: four rows of seven and no fifth
C29_Witness ==
    /\ GridShown /\ last.ev.data = <<"month", "2", "2021">>
    /\ Len(DayRows(last.shown)) = 4
    /\ Len(DayRows(last.shown)[4]) = 7
    /\ DayRows(last.shown)[4][7].text = "28"

\* the decimal digit d
Digit(d) == <<"0", "1", "2", "3", "4", "5", "6", "7", "8", "9">>[d + 1]
\* YYYY.MM.DD written digit by digit
Canonical(y, m, d) ==
    Digit(y \div 1000) \o Digit((y \div 100) % 10) \o Digit((y \div 10) % 10) \o Digit(y % 10)
    \o "." \o Digit(m \div 10) \o Digit(m % 10)
    \o "." \o Digit(d \div 10) \o Digit(d % 10)

\* C30: every day cell of a day grid carries the date of its day as
\* YYYY.MM.DD, zero-padded; a press on a day cell in CALENDAR_DAY stores that
\* date in the draft and moves the session to PLACE; a press on a blank cell
\* changes neither the state nor the draft
C30_DayCellStoresItsDate ==
    [][ \A u \in active :
          /\ ( /\ vars' # vars /\ last'.u = u /\ last'.h = "handle_calendar_month"
               /\ last'.reply = "select_day" )
                => LET y == ToInt(last'.ev.data[3])
                       m == ToInt(last'.ev.data[2])
                       cells == Flat(DayRows(last'.shown))
                   IN \A i \in 1..Len(cells) :
                         cells[i].data # <<"ignore">>
                            => \E d \in 1..31 :
                                  /\ cells[i].text = ToString(d)
                                  /\ cells[i].data = <<"day", Canonical(y, m, d)>>
          /\ ( /\ vars' # vars /\ last'.u = u /\ conv[u] = CALENDAR_DAY_SELECTION
               /\ last'.ev.kind = "press" /\ Len(last'.ev.data) = 2
               /\ last'.ev.data[1] = "day" )
                => /\ conv'[u] = PLACE
                   /\ Has(user_data'[u], "expense")
                   /\ Has(user_data'[u]["expense"], "date")
                   /\ user_data'[u]["expense"]["date"] = last'.ev.data[2]
          /\ ( /\ vars' # vars /\ last'.u = u /\ conv[u] = CALENDAR_DAY_SELECTION
               /\ last'.ev.kind = "press" /\ last'.ev.data = <<"ignore">> )
                => /\ conv'[u] = conv[u]
                   /\ user_data'[u] = user_data[u]
      ]_vars

\* the New Expense button has been pressed and the month menu is shown
MenuShown == last.h = "start" /\ last.reply = "choose_date" /\ last.shown # <<>>

\* C31: on every date the month menu offers six different months, the
\* current one first and then the five before it in descending order, the
\* year one less where the count passes January, whatever the day of the
\* month
C31_SixMonthsBack ==
    MenuShown =>
        LET now == last.shown.now
            kb == last.shown.keyboard
            count(i) == now[1] * 12 + (now[2] - 1) - (i - 1)
        IN /\ Len(kb) = 8
           /\ \A i \in 1..6 :
                 /\ Len(kb[i]) = 1
                 /\ kb[i][1].data = <<"month", ToString((count(i) % 12) + 1),
                                      ToString(count(i) \div 12)>>
           /\ \A i, j \in 1..6 : kb[i][1].data = kb[j][1].data => i = j
           /\ \A r \in 7..8 : \A c \in 1..Len(kb[r]) : kb[r][c].data[1] # "month"

\* the menu of 31 March 2025: March, February and January 2025, then
\* December, November and October 2024
C31_Witness ==
    /\ MenuShown /\ last.shown.now = <<2025, 3, 31>>
    /\ last.shown.keyboard[2][1].data = <<"month", "2", "2025">>
    /\ last.shown.keyboard[4][1].data = <<"month", "12", "2024">>
    /\ last.shown.keyboard[6][1].data = <<"month", "10", "2024">>

\* the text t is YYYY.MM.DD, zero-padded, and names a day of the calendar
CanonicalDate(t) ==
    /\ strptime(t) # <<>>
    /\ t = Canonical(strptime(t)[1], strptime(t)[2], strptime(t)[3])

\* C32: in DATE a text in the form YYYY.MM.DD that names a day of the
\* calendar is stored in the draft as it was typed, and 'today' in any
\* letter case stores the current date in that form
C32_CanonicalDateStoredUnchanged ==
    [][ \A u \in active :
          ( /\ vars' # vars /\ last'.u = u /\ conv[u] = DATE
            /\ last'.h = "date_input" /\ Has(user_data[u], "expense") )
           => /\ CanonicalDate(last'.ev.text)
                    => /\ conv'[u] = PLACE
                       /\ user_data'[u]["expense"]["date"] = last'.ev.text
              /\ last'.ev.text \in {"today", "Today", "TODAY"}
                    => /\ conv'[u] = PLACE
                       /\ user_data'[u]["expense"]["date"] = Today
                       /\ CanonicalDate(Today)
      ]_vars

\* C33: a pass through the entry flow appends at most one row, also when
\* two inputs of the session in RECEIPT_UPLOAD are handled at the same
\* time: receipt_upload never appends the row of a draft that already
\* carries the row index of its row
C33_OneRowPerPass ==
    [][ \A u \in active :
          ( /\ vars' # vars /\ last'.u = u /\ last'.h = "receipt_upload"
            /\ Len(ledger') > Len(ledger) )
           => ~(Has(user_data[u], "expense") /\ Has(user_data[u]["expense"], "row_index"))
      ]_vars

\* C34: whenever the save step of the entry flow answers 'error saving',
\* that step has appended no row to the ledger
C34_ErrorSavingAppendsNothing ==
    [][ \A u \in active :
          ( /\ vars' # vars /\ last'.u = u /\ last'.h = "receipt_upload"
            /\ last'.reply = "error_saving" )
           => /\ ledger' = ledger
              /\ last'.ops = <<>>
      ]_vars

\* the selection list of kind k ("edit" or "delete") has been shown to u
SelectionListed(u, k) ==
    /\ vars' # vars /\ last'.u = u /\ last'.h = "handle_menu_command"
    /\ last'.ev.data = <<"cmd", k>> /\ last'.shown # <<>>

\* C35: every button of the edit and of the delete list carries a sheet row
\* between 2 and the number of rows of the ledger, the header being row 1;
\* the button stands for the expense of that row and the date, place and
\* amount on it are those of that row
C35_ButtonsCarrySheetRow ==
    [][ \A u \in active : \A k \in {"edit", "delete"} :
          SelectionListed(u, k)
           => \A i \in 1..Len(last'.shown) :
                 \E r \in 2..Len(ledger) :
                    /\ last'.shown[i].data = <<k, ToString(r)>>
                    /\ last'.shown[i].expense = ledger[r]
                    /\ \/ last'.shown[i].text[1] = "Expense #"
                       \/ /\ last'.shown[i].text[1] = ledger[r][1]
                          /\ last'.shown[i].text[2] = ledger[r][2]
                          /\ FloatLex(ledger[r][3]) # <<>>
                          /\ last'.shown[i].text[3] = Fmt2(FloatLex(ledger[r][3])[1])
                    /\ \A j \in 1..Len(last'.shown) :
                          last'.shown[j].data = last'.shown[i].data => j = i
      ]_vars

\* the delete list of a ledger of three expenses: the buttons carry rows 4,
\* 3 and 2 and show the places of those rows
C35_Witness ==
    /\ last.h = "handle_menu_command" /\ last.ev.data = <<"cmd", "delete">>
    /\ Len(ledger) = 4 /\ Len(last.shown) = 3
    /\ last.shown[1].data = <<"delete", "4">> /\ last.shown[1].text[2] = ledger[4][2]
    /\ last.shown[3].data = <<"delete", "2">> /\ last.shown[3].text[2] = ledger[2][2]
    /\ ledger[4][2] # ledger[2][2]

\* C36: the ledger loses a row only in a step that handles a confirm press
\* of a session in DELETE_CONFIRM, one row in that step and one row in the
\* sub-flow: no handler of the session that has deleted a row is still at
\* work, and once the step is over the session is at the menu without a
\* delete context; selecting a record, declining, Back to Menu and the
\* cancel command leave the ledger as it is
C36_OnlyConfirmDeletes ==
    [][ /\ Len(ledger') < Len(ledger)
            => \E u \in active :
                 /\ last'.u = u /\ conv[u] = DELETE_CONFIRM
                 /\ last'.h = "handle_delete_confirm"
                 /\ last'.ev.data = <<"confirm", "delete">>
                 /\ Len(ledger') = Len(ledger) - 1
                 /\ \A i \in DOMAIN inflight[u] : inflight[u][i].ops = <<>>
                 /\ inflight'[u] = <<>>
                       => /\ conv'[u] = END
                          /\ ~Has(user_data'[u], "delete_row_index")
        /\ \A u \in active :
             ( /\ vars' # vars /\ last'.u = u
               /\ \/ last'.h = "handle_delete_selection"
                  \/ /\ conv[u] = DELETE_CONFIRM
                     /\ \/ last'.ev.data \in {<<"cancel", "delete">>, <<"back", "to", "menu">>}
                        \/ (last'.ev.kind = "command" /\ last'.ev.text = "cancel") )
              => ledger' = ledger
      ]_vars

\* C37: with the events of a session handled one at a time, a session in
\* EDIT_FIELD or EDIT_VALUE has its edit row index and original record
\* stored (in EDIT_VALUE the field index too), and a session in
\* DELETE_CONFIRM its delete row index and original record
C37_ContextSetInSubFlow ==
    \A u \in active :
        /\ conv[u] \in {EDIT_FIELD, EDIT_VALUE}
              => Has(user_data[u], "edit_row_index") /\ Has(user_data[u], "edit_expense")
        /\ conv[u] = EDIT_VALUE => Has(user_data[u], "edit_field_index")
        /\ conv[u] = DELETE_CONFIRM
              => Has(user_data[u], "delete_row_index") /\ Has(user_data[u], "delete_expense")

\* a field press has just put a session into EDIT_VALUE with the row index,
\* the record and the field index stored
C37_Witness ==
    \E u \in active :
        /\ conv[u] = EDIT_VALUE
        /\ last.u = u /\ last.h = "handle_edit_field_selection"
        /\ Has(user_data[u], "edit_row_index") /\ Has(user_data[u], "edit_expense")
        /\ Has(user_data[u], "edit_field_index")

\* the draft of a session has the first n fields of an entry, in the order
\* in which the entry states ask for them
DraftHas(ud, n) ==
    /\ Has(ud, "expense")
    /\ \A i \in 1..n : Has(ud["expense"], RowKeys[i])

\* the number of fields the draft must hold in each entry state
FieldsBy(state) ==
    CASE state = PLACE -> 1
      [] state = AMOUNT -> 2
      [] state = CATEGORY -> 3
      [] state = RECEIPT_NUMBER -> 4
      [] state = TAG -> 5
      [] OTHER -> 0

\* C38: with the events of a session handled one at a time, the draft is
\* complete up to the current entry state: a date in PLACE, also a place in
\* AMOUNT, an amount in CATEGORY, a category in RECEIPT_NUMBER, a receipt
\* number in TAG, and all six fields in RECEIPT_UPLOAD when it was entered
\* from TAG, for as long as the session stays there
C38_DraftCompleteUpToState ==
    [][ \A u \in active :
          /\ FieldsBy(conv[u]) > 0 => DraftHas(user_data[u], FieldsBy(conv[u]))
          /\ FieldsBy(conv'[u]) > 0 => DraftHas(user_data'[u], FieldsBy(conv'[u]))
          /\ (conv[u] = TAG /\ conv'[u] = RECEIPT_UPLOAD) => DraftHas(user_data'[u], 6)
          /\ (conv[u] = RECEIPT_UPLOAD /\ conv'[u] = RECEIPT_UPLOAD
                /\ DraftHas(user_data[u], 6)) => DraftHas(user_data'[u], 6)
      ]_vars

\* a tag press has just taken a session from TAG to RECEIPT_UPLOAD with the
\* six fields in its draft
C38_Witness ==
    \E u \in active :
        /\ conv[u] = RECEIPT_UPLOAD
        /\ last.u = u /\ last.h = "tag_callback"
        /\ DraftHas(user_data[u], 6)

\* C39: whenever the search context of a session is set (search_state is
\* start_date or end_date) the session is in SEARCH_DATE_RANGE
C39_SearchContextOnlyInSearch ==
    \A u \in active :
        Has(user_data[u], "search_state") => conv[u] = SEARCH_DATE_RANGE

====
